---- MODULE Spec2Model ----
(***************************************************************************)
(* Content-acquisition subsystem of manga-verse.                           *)
(*                                                                         *)
(* The repository holds two scraping engines that share no state:          *)
(*   - class ScrapingEngine with its RateLimiter and CircuitBreaker        *)
(*     (src/unnamed/part_001, "api.js"), exported as `api`;                *)
(*   - the closure `API` (src/app.js, lines 1253-1709).                    *)
(* A behaviour exercises one of them; the variable `engine` says which.    *)
(*                                                                         *)
(* Time is the value of Date.now(), counted in ticks.  Durations that the  *)
(* code gives in milliseconds are scaled to a few ticks.                   *)
(***************************************************************************)
EXTENDS Integers, Sequences, FiniteSets, TLC

VARIABLES
    engine,          \* "ScrapingEngine" or "API": the engine this behaviour runs
    now,             \* Date.now()
    ret,             \* the call that returned last and what it returned; for a report
                     \* to a breaker also the state the breaker was in;
                     \* for a write to the API cache also the keys it evicted
    circuitBreaker,  \* ScrapingEngine.circuitBreaker: [failures, state, nextAttempt]
    sourceHealth,    \* API sourceHealth: source id -> [failures, lastFailure, lastRequest]
    circuitBreakers, \* API circuitBreakers: source id -> [failures, lastFailure] or NoBreaker
    inFlight,        \* breaker id -> requests that passed the breaker and have not reported
    streak,          \* history: breaker id -> failure reports since the last success report
    openedAt,        \* history: breaker id -> time of the report that opened it, or NoTime
    trialPending,    \* history: breaker id -> a trial was let through and nothing reported since
    cache,           \* ScrapingEngine.cache: key -> [value, timestamp, ttl] or NoEntry
    cleanupTimers,   \* pending setTimeout callbacks of addToCache: set of [key, at]
    apiCache,        \* API cache, a Map in insertion order: sequence of [key, data, timestamp, expiry]
    lastSet,         \* history: key -> the last write of the key, [value, at, ttl, over], or NoSet
    RETRY,           \* CONFIG.API.RETRY: [BASE_DELAY, MAX_DELAY, MAX_ATTEMPTS]
    backoff,         \* the last calls of exponentialBackoff: [retryCount, delay, previous]
    calls,           \* scrape invocations of the engine: call id -> frame (see FreeFrame)
    requests,        \* ScrapingEngine.rateLimiter.requests: the times of the requests let through
    activeRequests,  \* API activeRequests
    requestQueue,    \* API requestQueue: the calls waiting for a slot, in order
    requestFingerprints, \* API requestFingerprints
    fingerprintTimers,   \* pending setTimeout callbacks of scrape, line 1284: set of [fp, at]
    abortControllers,    \* ScrapingEngine.abortControllers: the calls whose fetch has a
                         \* controller in the registry
    doc,             \* the document of a response: its items and the selectors it is read with
    extraction,      \* the last extraction: who ran it, for which source, and the list returned
    manager          \* StateManager: [state, history, historyIndex]

breakerVars == <<circuitBreaker, sourceHealth, circuitBreakers, inFlight, streak,
                 openedAt, trialPending>>

cacheVars == <<cache, cleanupTimers, apiCache, lastSet>>

retryVars == <<RETRY, backoff>>

scrapeVars == <<calls, requests, activeRequests, requestQueue, requestFingerprints, fingerprintTimers,
                abortControllers>>

appVars == <<doc, extraction, manager>>

vars == <<engine, now, ret, breakerVars, cacheVars, retryVars, scrapeVars, appVars>>

-----------------------------------------------------------------------------
(* Bounds and configuration *)

\* CONFIG.network.circuitBreaker.failureThreshold
failureThreshold == 5
\* CONFIG.network.circuitBreaker.resetTimeout (30000 ms), in ticks
resetTimeout == 3
\* CONFIG.API.CIRCUIT_BREAKER.THRESHOLD and .TIMEOUT (in ticks); the file that
\* sets CONFIG.API is not part of the sources
THRESHOLD == 2
TIMEOUT == 3
\* the clock stops here
MaxTime == 5
\* no more failures than this are counted by a breaker
MaxFailures == 7
\* requests that may be past a breaker at once
MaxInFlight == 2
\* the elements of a document
MaxItems == 3
\* the entries StateManager keeps in its history (100 in src/state.js)
HISTORY_LIMIT == 3

\* CONFIG.API.CACHE.TTL (in ticks) and CONFIG.API.CACHE.MAX_SIZE
CACHE_TTL == 2
MAX_SIZE == 2
\* the largest options.ttl (in ticks)
MaxTTL == 2
\* the clock of the cache specification stops here
MaxCacheTime == 3

\* CONFIG.API.RETRY.BASE_DELAY, .MAX_DELAY (in ticks) and .MAX_ATTEMPTS of the scrape calls
BASE_DELAY == 1
MAX_DELAY == 2
MAX_ATTEMPTS == 2
\* the configurations and retry counts exponentialBackoff is tried on
MaxBaseDelay == 4
MaxMaxDelay == 9
MaxRetryCount == 6

\* the fixed deduplication window of API.scrape (5000 ms) and the timeout of
\* fetchWithTimeout (10000 ms), in ticks of 5000 ms
DEDUP_WINDOW == 1
FETCH_TIMEOUT == 2
\* 1000 / CONFIG.API.RATE_LIMIT.MAX_REQUESTS (in ticks) and CONFIG.API.RATE_LIMIT.MAX_CONCURRENT
RATE_INTERVAL == 1
MAX_CONCURRENT == 5
\* CONFIG.network.rateLimit (requests per window) and the window of
\* RateLimiter.allow (60000 ms), in ticks
rateLimit == 2
RATE_WINDOW == 1
\* scrape invocations alive at once, and where the clocks of the two scrape
\* specifications stop
MaxCalls == 3
MaxApiTime == 3
MaxEngineTime == 2
\* CONFIG.API.RATE_LIMIT.MAX_REQUESTS: API.rateLimit spaces the requests to a
\* source 1000 / MAX_REQUESTS ms apart, which is RATE_INTERVAL ticks; and where
\* the clock of the rate-limit specification stops
MAX_REQUESTS == 2
MaxRateTime == 2
\* CONFIG.network.maxConcurrent, the concurrency limit of ScrapingEngine
maxConcurrent == 2
\* CONFIG.network.timeout, the timeout of makeRequest, and where the clock of
\* the network specification stops
networkTimeout == 2
MaxNetTime == 3

NoTime == -1
\* (source.lastRequest || 0): no request yet, a time long past
Epoch == -10
NoBreaker == [failures |-> -1, lastFailure |-> -1]
NoRet == [op |-> "none", id |-> "none", val |-> FALSE]
\* null / "absent", the miss of a cache read
absent == "absent"
NoEntry == [value |-> absent, timestamp |-> -1, ttl |-> -1]
NoSet == [value |-> absent, at |-> -1, ttl |-> -1, over |-> FALSE]
NoRead == [op |-> "none", id |-> "none", val |-> absent]

\* cache keys: each stands for an endpoint with its serialized options
Keys == {"k1", "k2", "k3"}
\* the keys ScrapingEngine is asked for
EngineKeys == {"k1", "k2"}
Values == {"v1", "v2"}
\* options.ttl, which is part of the key (default CONFIG.cache.ttl.mangaList)
optionsTtl(key) == IF key = "k1" THEN 1 ELSE MaxTTL

\* scrape targets (the path of a list, detail or search page)
Targets == {"t1"}
CallIds == 1..MaxCalls
\* a call slot not in use; the fields of a frame:
\*   pc        where the call is suspended: "rate" (await rateLimit), "queued"
\*             (await the queue promise), "fetch" (await fetchWithTimeout),
\*             "backoff" (await wait(delay)), "awaitChild" (await scrape in
\*             fallbackScrape), "done" (returned, the caller not yet resumed)
\*             and, in ScrapingEngine, "request" (await makeRequest)
\*   url, sourceId   the arguments of API.scrape; url is the sequence of its parts
\*   key       the cacheKey of ScrapingEngine.scrape: the endpoint and its options
\*   parent    the call whose fallbackScrape made this call, 0 for a caller outside
\*   retries   the local of the retry loop
\*   at        the time the awaited timer fires / the fetch times out
\*   t0        the `now` captured by rateLimit
\*   fb        the index, in fallbackScrape's source list, of the source being tried
\*   regAt     history: the time the call was made
\*   data, how the value returned and the return statement that returned it
FreeFrame ==
    [pc |-> "free", url |-> <<>>, sourceId |-> "none", key |-> "none", parent |-> 0, retries |-> 0,
     at |-> 0, t0 |-> 0, fb |-> 0, regAt |-> 0, data |-> absent, how |-> "none"]

\* CONFIG.API.SOURCES: ids in ascending priority; the first two are also the
\* ids of CONFIG.sources, the sources of ScrapingEngine
Sources == <<"A", "B", "C">>
SourceIds == {Sources[i] : i \in 1..Len(Sources)}
\* the sources that the breaker and the rate-limit specifications exercise
GatedSources == {Sources[1], Sources[2]}
BreakerIds == {"engine"} \cup SourceIds

\* a document before any response has been read, and no extraction yet
NoDoc == [items |-> <<>>, fallback |-> FALSE]
NoExtraction == [by |-> "none", source |-> "none", data |-> <<>>]

\* StateManager: the paths that are set and the values they take
Paths == {"ui.theme", "reader.readingMode"}
StateValues == {"dark", "light", "vertical"}
\* constructor, src/state.js lines 3-57
NewManager ==
    [state |-> [p \in Paths |-> IF p = "ui.theme" THEN "dark" ELSE "vertical"],
     history |-> <<>>,
     historyIndex |-> -1]

-----------------------------------------------------------------------------
(* class CircuitBreaker (ScrapingEngine) *)

\* constructor
CircuitBreaker(t) == [failures |-> 0, state |-> "CLOSED", nextAttempt |-> t]

recordSuccess_keepFailures(b) == [b EXCEPT !.state = "CLOSED"]

recordSuccess(b) == [b EXCEPT !.failures = 0, !.state = "CLOSED"]

recordFailure_strict(b, t) ==
    LET f == b.failures + 1 IN
    IF f > failureThreshold
    THEN [failures |-> f, state |-> "OPEN", nextAttempt |-> t + resetTimeout]
    ELSE [b EXCEPT !.failures = f]

recordFailure_noReopenTime(b, t) ==
    LET f == b.failures + 1 IN
    IF f >= failureThreshold
    THEN [b EXCEPT !.failures = f, !.state = "OPEN"]
    ELSE [b EXCEPT !.failures = f]

recordFailure_opensAtOnce(b, t) ==
    [failures |-> b.failures + 1, state |-> "OPEN", nextAttempt |-> t + resetTimeout]

isOpen_closesAfterTimeout(b, t) ==
    IF b.state = "OPEN"
    THEN IF t > b.nextAttempt
         THEN [open |-> FALSE, breaker |-> [b EXCEPT !.state = "CLOSED"]]
         ELSE [open |-> TRUE, breaker |-> b]
    ELSE [open |-> FALSE, breaker |-> b]

recordFailure(b, t) ==
    LET f == b.failures + 1 IN
    IF f >= failureThreshold
    THEN [failures |-> f, state |-> "OPEN", nextAttempt |-> t + resetTimeout]
    ELSE [b EXCEPT !.failures = f]

\* isOpen(): the value returned and the breaker afterwards
isOpen(b, t) ==
    IF b.state = "OPEN"
    THEN IF t > b.nextAttempt
         THEN [open |-> FALSE, breaker |-> [b EXCEPT !.state = "HALF_OPEN"]]
         ELSE [open |-> TRUE, breaker |-> b]
    ELSE [open |-> FALSE, breaker |-> b]

-----------------------------------------------------------------------------
(* API: isCircuitBroken / updateSourceHealth *)

\* isCircuitBroken(sourceId): the value returned and circuitBreakers afterwards
isCircuitBroken(cbs, s, t) ==
    LET breaker == cbs[s] IN
    IF breaker = NoBreaker
    THEN [open |-> FALSE, breakers |-> cbs]
    ELSE IF breaker.failures >= THRESHOLD
         THEN IF t - breaker.lastFailure > TIMEOUT
              THEN [open |-> FALSE, breakers |-> [cbs EXCEPT ![s] = NoBreaker]]
              ELSE [open |-> TRUE, breakers |-> cbs]
         ELSE [open |-> FALSE, breakers |-> cbs]

\* updateSourceHealth(sourceId, success): sourceHealth and circuitBreakers afterwards.
\* The health score (a float the gates never read) is left out.
updateSourceHealth_strict(sh, cbs, s, success, t) ==
    IF success
    THEN [health |-> [sh EXCEPT ![s].failures = 0], breakers |-> cbs]
    ELSE LET f == sh[s].failures + 1 IN
         [health |-> [sh EXCEPT ![s].failures = f, ![s].lastFailure = t],
          breakers |-> IF f > THRESHOLD
                       THEN [cbs EXCEPT ![s] = [failures |-> f, lastFailure |-> t]]
                       ELSE cbs]

updateSourceHealth(sh, cbs, s, success, t) ==
    IF success
    THEN [health |-> [sh EXCEPT ![s].failures = 0], breakers |-> cbs]
    ELSE LET f == sh[s].failures + 1 IN
         [health |-> [sh EXCEPT ![s].failures = f, ![s].lastFailure = t],
          breakers |-> IF f >= THRESHOLD
                       THEN [cbs EXCEPT ![s] = [failures |-> f, lastFailure |-> t]]
                       ELSE cbs]

-----------------------------------------------------------------------------
(* Breaker specification: scrape calls reach a breaker's gate, and the     *)
(* requests that passed it report their outcome later, in any order.       *)

InitBreakers ==
    /\ circuitBreaker = CircuitBreaker(0)
    /\ sourceHealth = [s \in SourceIds |-> [failures |-> 0, lastFailure |-> 0, lastRequest |-> Epoch]]
    /\ circuitBreakers = [s \in SourceIds |-> NoBreaker]
    /\ inFlight = [b \in BreakerIds |-> 0]
    /\ streak = [b \in BreakerIds |-> 0]
    /\ openedAt = [b \in BreakerIds |-> NoTime]
    /\ trialPending = [b \in BreakerIds |-> FALSE]

InitRetry ==
    /\ RETRY = [BASE_DELAY |-> BASE_DELAY, MAX_DELAY |-> MAX_DELAY, MAX_ATTEMPTS |-> MAX_ATTEMPTS]
    /\ backoff = [retryCount |-> 0, delay |-> 0, previous |-> 0]

InitCalls ==
    /\ calls = [c \in CallIds |-> FreeFrame]
    /\ requests = <<>>
    /\ activeRequests = 0
    /\ requestQueue = <<>>
    /\ requestFingerprints = {}
    /\ fingerprintTimers = {}
    /\ abortControllers = {}

\* no document has been read, and the state manager holds no history
InitApp ==
    /\ doc = NoDoc
    /\ extraction = NoExtraction
    /\ manager = NewManager

InitCaches ==
    /\ cache = [k \in Keys |-> NoEntry]
    /\ cleanupTimers = {}
    /\ apiCache = <<>>
    /\ lastSet = [k \in Keys |-> NoSet]

InitBreaker ==
    /\ engine \in {"ScrapingEngine", "API"}
    /\ now = 0
    /\ ret = NoRet
    /\ InitBreakers
    /\ InitCaches
    /\ InitRetry
    /\ InitCalls
    /\ InitApp

\* the configured threshold and reset timeout of a breaker
Threshold(id) == IF id = "engine" THEN failureThreshold ELSE THRESHOLD
Timeout(id) == IF id = "engine" THEN resetTimeout ELSE TIMEOUT

\* history kept at a gate check that returned `open`, the breaker having been
\* open (wasOpen) before the call
GateHistory(id, open, wasOpen) ==
    /\ inFlight' = [inFlight EXCEPT ![id] = IF open THEN @ ELSE @ + 1]
    /\ trialPending' = [trialPending EXCEPT ![id] = IF wasOpen /\ ~open THEN TRUE ELSE @]
    /\ openedAt' = [openedAt EXCEPT ![id] =
                      IF ~open /\ @ # NoTime /\ now >= @ + Timeout(id) THEN NoTime ELSE @]
    /\ UNCHANGED streak

\* history kept at a success or failure report, the breaker being open
\* afterwards (isOpenAfter) and before (wasOpen)
ReportHistory(id, success, wasOpen, isOpenAfter) ==
    /\ inFlight' = [inFlight EXCEPT ![id] = @ - 1]
    /\ streak' = [streak EXCEPT ![id] = IF success THEN 0 ELSE @ + 1]
    /\ trialPending' = [trialPending EXCEPT ![id] = FALSE]
    /\ openedAt' = [openedAt EXCEPT ![id] = IF ~wasOpen /\ isOpenAfter THEN now ELSE @]

\* the state of breaker id.  An API breaker is open while circuitBreakers has
\* its entry; when isCircuitBroken has deleted the entry after the timeout,
\* the failures kept in sourceHealth are still at the threshold: half-open.
StateOf(id) ==
    IF id = "engine"
    THEN circuitBreaker.state
    ELSE IF circuitBreakers[id] # NoBreaker
         THEN "OPEN"
         ELSE IF sourceHealth[id].failures >= THRESHOLD THEN "HALF_OPEN" ELSE "CLOSED"

\* ScrapingEngine.scrape, lines 56-59: if (this.circuitBreaker.isOpen()) throw
EngineIsOpen ==
    /\ engine = "ScrapingEngine"
    /\ LET r == isOpen(circuitBreaker, now) IN
       /\ r.open \/ inFlight["engine"] < MaxInFlight
       /\ circuitBreaker' = r.breaker
       /\ ret' = [op |-> "isOpen", id |-> "engine", val |-> r.open]
       /\ GateHistory("engine", r.open, circuitBreaker.state = "OPEN")
    /\ UNCHANGED <<engine, now, sourceHealth, circuitBreakers, cacheVars, retryVars, appVars, scrapeVars>>

\* ScrapingEngine.scrape, line 63: this.circuitBreaker.recordSuccess()
EngineRecordSuccess ==
    /\ engine = "ScrapingEngine"
    /\ inFlight["engine"] > 0
    /\ circuitBreaker' = recordSuccess(circuitBreaker)
    /\ ret' = [op |-> "recordSuccess", id |-> "engine", val |-> TRUE,
               was |-> StateOf("engine")]
    /\ ReportHistory("engine", TRUE, circuitBreaker.state = "OPEN", FALSE)
    /\ UNCHANGED <<engine, now, sourceHealth, circuitBreakers, cacheVars, retryVars, appVars, scrapeVars>>

\* ScrapingEngine.scrape, line 70: this.circuitBreaker.recordFailure()
EngineRecordFailure ==
    /\ engine = "ScrapingEngine"
    /\ inFlight["engine"] > 0
    /\ circuitBreaker.failures < MaxFailures
    /\ circuitBreaker' = recordFailure(circuitBreaker, now)
    /\ ret' = [op |-> "recordFailure", id |-> "engine", val |-> FALSE,
               was |-> StateOf("engine")]
    /\ ReportHistory("engine", FALSE, circuitBreaker.state = "OPEN",
                     circuitBreaker'.state = "OPEN")
    /\ UNCHANGED <<engine, now, sourceHealth, circuitBreakers, cacheVars, retryVars, appVars, scrapeVars>>

\* API.scrape, line 1288, and fallbackScrape, line 1593: isCircuitBroken(sourceId)
ApiIsCircuitBroken(s) ==
    /\ engine = "API"
    /\ LET r == isCircuitBroken(circuitBreakers, s, now) IN
       /\ r.open \/ inFlight[s] < MaxInFlight
       /\ circuitBreakers' = r.breakers
       /\ ret' = [op |-> "isOpen", id |-> s, val |-> r.open]
       /\ GateHistory(s, r.open, circuitBreakers[s] # NoBreaker)
    /\ UNCHANGED <<engine, now, circuitBreaker, sourceHealth, cacheVars, retryVars, appVars, scrapeVars>>

\* API.scrape, lines 1326 and 1345: updateSourceHealth(sourceId, success)
ApiUpdateSourceHealth(s, success) ==
    /\ engine = "API"
    /\ inFlight[s] > 0
    /\ success \/ sourceHealth[s].failures < MaxFailures
    /\ LET r == updateSourceHealth(sourceHealth, circuitBreakers, s, success, now) IN
       /\ sourceHealth' = r.health
       /\ circuitBreakers' = r.breakers
       /\ ReportHistory(s, success, circuitBreakers[s] # NoBreaker, r.breakers[s] # NoBreaker)
    /\ ret' = [op |-> IF success THEN "recordSuccess" ELSE "recordFailure",
               id |-> s, val |-> success, was |-> StateOf(s)]
    /\ UNCHANGED <<engine, now, circuitBreaker, cacheVars, retryVars, appVars, scrapeVars>>

\* the clock advances
BreakerTick ==
    /\ now < MaxTime
    /\ now' = now + 1
    /\ ret' = NoRet
    /\ UNCHANGED <<engine, breakerVars, cacheVars, retryVars, appVars, scrapeVars>>

IsOpenCall ==
    EngineIsOpen \/ \E s \in GatedSources : ApiIsCircuitBroken(s)

FailureReport ==
    EngineRecordFailure \/ \E s \in GatedSources : ApiUpdateSourceHealth(s, FALSE)

NextBreaker ==
    \/ EngineIsOpen
    \/ EngineRecordSuccess
    \/ EngineRecordFailure
    \/ \E s \in GatedSources : ApiIsCircuitBroken(s)
    \/ \E s \in GatedSources, success \in BOOLEAN : ApiUpdateSourceHealth(s, success)
    \/ BreakerTick

SpecBreaker == InitBreaker /\ [][NextBreaker]_vars

\* a breaker blocks: CircuitBreaker.state is OPEN / circuitBreakers holds a tripped entry
BreakerOpen(id) ==
    IF id = "engine"
    THEN circuitBreaker.state = "OPEN"
    ELSE circuitBreakers[id] # NoBreaker /\ circuitBreakers[id].failures >= THRESHOLD

\* the time after which an open breaker lets a request through again
ReopenTime(id) ==
    IF id = "engine"
    THEN circuitBreaker.nextAttempt
    ELSE circuitBreakers[id].lastFailure + TIMEOUT

\* the gate check of breaker id, as a step
IsOpenAt(id) == IF id = "engine" THEN EngineIsOpen ELSE ApiIsCircuitBroken(id)

\* C1: the failure report that brings a breaker's run of consecutive failure
\* reports to the threshold leaves the breaker open, with its reopen time
\* equal to the time of that report plus the reset timeout.
C1_OpensAtThreshold ==
    [][\A id \in BreakerIds :
          (streak'[id] = streak[id] + 1 /\ streak'[id] = Threshold(id))
              => (BreakerOpen(id)' /\ ReopenTime(id)' = now + Timeout(id))]_vars

C1_Witness ==
    \E id \in BreakerIds :
        /\ ret.op = "recordFailure" /\ ret.id = id
        /\ streak[id] = Threshold(id)
        /\ BreakerOpen(id)
        /\ ReopenTime(id) = now + Timeout(id)

\* C2: once a breaker has opened, every gate check made before the reset
\* timeout has elapsed since it opened returns true, and the first check made
\* once it has elapsed returns false, whatever reports arrive in between.
\* (The check made at the very instant the timeout elapses is left free.)
C2_BlockedUntilResetTimeout ==
    [][\A id \in BreakerIds :
          (IsOpenAt(id) /\ openedAt[id] # NoTime)
              => /\ now < openedAt[id] + Timeout(id) => ret'.val = TRUE
                 /\ now > openedAt[id] + Timeout(id) => ret'.val = FALSE]_vars

\* C3: after a gate check has let the trial request through, every further
\* check blocks until a success or a failure has been reported.
C3_SingleTrial ==
    [][\A id \in BreakerIds :
          (IsOpenAt(id) /\ trialPending[id]) => ret'.val = TRUE]_vars

-----------------------------------------------------------------------------
(* ScrapingEngine.addToCache / getFromCache *)

\* addToCache(key, value, ttl): the Map afterwards (the timer is set by the caller below)
addToCache(c, key, value, ttl, t) ==
    [c EXCEPT ![key] = [value |-> value, timestamp |-> t, ttl |-> ttl]]

\* getFromCache(key): the value returned and the Map afterwards
getFromCache_expireAtTtl(c, key, t) ==
    LET entry == c[key] IN
    IF entry = NoEntry
    THEN [val |-> absent, cache |-> c]
    ELSE IF t - entry.timestamp >= entry.ttl
         THEN [val |-> absent, cache |-> [c EXCEPT ![key] = NoEntry]]
         ELSE [val |-> entry.value, cache |-> c]

getFromCache(c, key, t) ==
    LET entry == c[key] IN
    IF entry = NoEntry
    THEN [val |-> absent, cache |-> c]
    ELSE IF t - entry.timestamp > entry.ttl
         THEN [val |-> absent, cache |-> [c EXCEPT ![key] = NoEntry]]
         ELSE [val |-> entry.value, cache |-> c]

-----------------------------------------------------------------------------
(* API: cacheResult / getCached *)

\* cache.has(key), cache.get(key)
ApiHas(c, key) == \E i \in 1..Len(c) : c[i].key = key
ApiIndex(c, key) == CHOOSE i \in 1..Len(c) : c[i].key = key

\* cache.set(key, entry): an existing key keeps its place in the Map
ApiSet(c, e) ==
    IF ApiHas(c, e.key)
    THEN [c EXCEPT ![ApiIndex(c, e.key)] = e]
    ELSE Append(c, e)

\* cache.delete(key)
ApiDelete(c, key) ==
    SelectSeq(c, LAMBDA e : e.key # key)

\* Array.from(cache.entries()).sort((a, b) => a[1].timestamp - b[1].timestamp)[0]:
\* the sort is stable, so the first of the entries with the least timestamp
Oldest_mostRecent(c) ==
    c[CHOOSE i \in 1..Len(c) : \A j \in 1..Len(c) : c[i].timestamp >= c[j].timestamp]

Oldest(c) ==
    c[CHOOSE i \in 1..Len(c) :
        /\ \A j \in 1..Len(c) : c[i].timestamp <= c[j].timestamp
        /\ \A j \in 1..(i - 1) : c[j].timestamp > c[i].timestamp]

\* cacheResult(key, data)
cacheResult(c, key, data, t) ==
    LET c1 == ApiSet(c, [key |-> key, data |-> data, timestamp |-> t,
                         expiry |-> t + CACHE_TTL]) IN
    IF Len(c1) > MAX_SIZE THEN ApiDelete(c1, Oldest(c1).key) ELSE c1

\* getCached(key): the value returned and the Map afterwards
getCached_keepsStale(c, key, t) ==
    IF ApiHas(c, key) /\ c[ApiIndex(c, key)].expiry > t
    THEN [val |-> c[ApiIndex(c, key)].data, cache |-> c]
    ELSE [val |-> absent, cache |-> c]

getCached_clears(c, key, t) ==
    IF ApiHas(c, key) /\ c[ApiIndex(c, key)].expiry > t
    THEN [val |-> c[ApiIndex(c, key)].data, cache |-> c]
    ELSE [val |-> absent, cache |-> <<>>]

getCached(c, key, t) ==
    IF ApiHas(c, key) /\ c[ApiIndex(c, key)].expiry > t
    THEN [val |-> c[ApiIndex(c, key)].data, cache |-> c]
    ELSE [val |-> absent, cache |-> ApiDelete(c, key)]

-----------------------------------------------------------------------------
(* Cache specification: writes and reads of the two caches, the cleanup    *)
(* timers of addToCache and the clock.                                     *)

InitCache ==
    /\ engine \in {"ScrapingEngine", "API"}
    /\ now = 0
    /\ ret = NoRead
    /\ InitBreakers
    /\ InitCaches
    /\ InitRetry
    /\ InitCalls
    /\ InitApp

\* ScrapingEngine.scrape, line 66: this.addToCache(cacheKey, result, options.ttl)
EngineAddToCache(key, value) ==
    /\ engine = "ScrapingEngine"
    /\ cache' = addToCache(cache, key, value, optionsTtl(key), now)
    /\ cleanupTimers' = cleanupTimers \cup {[key |-> key, at |-> now + optionsTtl(key)]}
    /\ lastSet' = [lastSet EXCEPT ![key] = [value |-> value, at |-> now,
                       ttl |-> optionsTtl(key), over |-> cache[key] # NoEntry]]
    /\ ret' = [op |-> "set", id |-> key, val |-> value]
    /\ UNCHANGED <<engine, now, breakerVars, apiCache, retryVars, appVars, scrapeVars>>

\* ScrapingEngine.scrape, line 46: this.getFromCache(cacheKey)
EngineGetFromCache(key) ==
    /\ engine = "ScrapingEngine"
    /\ LET r == getFromCache(cache, key, now) IN
       /\ cache' = r.cache
       /\ ret' = [op |-> "get", id |-> key, val |-> r.val]
    /\ UNCHANGED <<engine, now, breakerVars, cleanupTimers, apiCache, lastSet, retryVars, appVars, scrapeVars>>

\* addToCache, lines 310-312: setTimeout(() => this.cache.delete(key), ttl)
EngineCleanup(timer) ==
    /\ engine = "ScrapingEngine"
    /\ timer \in cleanupTimers
    /\ timer.at <= now
    /\ cache' = [cache EXCEPT ![timer.key] = NoEntry]
    /\ cleanupTimers' = cleanupTimers \ {timer}
    /\ ret' = NoRead
    /\ UNCHANGED <<engine, now, breakerVars, apiCache, lastSet, retryVars, appVars, scrapeVars>>

\* API.scrape, line 1329: cacheResult(url, data)
ApiCacheResult(key, data) ==
    /\ engine = "API"
    /\ apiCache' = cacheResult(apiCache, key, data, now)
    /\ lastSet' = [k \in Keys |->
                     IF k = key
                     THEN [value |-> data, at |-> now, ttl |-> CACHE_TTL,
                           over |-> ApiHas(apiCache, key)]
                     ELSE IF ApiHas(apiCache, k) /\ ~ApiHas(apiCache', k)
                          THEN NoSet
                          ELSE lastSet[k]]
    /\ ret' = [op |-> "set", id |-> key, val |-> data,
               evicted |-> {e.key : e \in {apiCache[i] : i \in 1..Len(apiCache)}}
                              \ {e.key : e \in {apiCache'[i] : i \in 1..Len(apiCache')}}]
    /\ UNCHANGED <<engine, now, breakerVars, cache, cleanupTimers, retryVars, appVars, scrapeVars>>

\* API.getMangaList, line 1636: getCached(cacheKey)
ApiGetCached(key) ==
    /\ engine = "API"
    /\ LET r == getCached(apiCache, key, now) IN
       /\ apiCache' = r.cache
       /\ ret' = [op |-> "get", id |-> key, val |-> r.val]
    /\ UNCHANGED <<engine, now, breakerVars, cache, cleanupTimers, lastSet, retryVars, appVars, scrapeVars>>

\* the clock advances; a timer that is due fires first
CacheTick ==
    /\ now < MaxCacheTime
    /\ \A timer \in cleanupTimers : timer.at > now
    /\ now' = now + 1
    /\ ret' = NoRead
    /\ UNCHANGED <<engine, breakerVars, cacheVars, retryVars, appVars, scrapeVars>>

\* a read of key, as a step
GetAt(key) == EngineGetFromCache(key) \/ ApiGetCached(key)

NextCache ==
    \/ \E key \in Keys, value \in Values : EngineAddToCache(key, value)
    \/ \E key \in Keys : EngineGetFromCache(key)
    \/ \E timer \in cleanupTimers : EngineCleanup(timer)
    \/ \E key \in Keys, data \in Values : ApiCacheResult(key, data)
    \/ \E key \in Keys : ApiGetCached(key)
    \/ CacheTick

SpecCache == InitCache /\ [][NextCache]_vars

\* the value of the last write of key while it is younger than its TTL, else absent
Expected(key, t) ==
    IF t - lastSet[key].at < lastSet[key].ttl THEN lastSet[key].value ELSE absent

\* C6: a read of a key returns the value last stored for it exactly while
\* now - timestamp < ttl, and absent once the entry's age has reached ttl
\* (entries removed for capacity set aside).
C6_ReadableExactlyWithinTtl ==
    [][\A key \in Keys :
          (GetAt(key) /\ lastSet[key] # NoSet) => ret'.val = Expected(key, now)]_vars

\* C7: a value written over an existing entry stays in the cache for a full
\* TTL counted from that write: nothing left by the earlier write removes it.
C7_ResetKeepsFullTtl ==
    \A key \in Keys :
        (lastSet[key].over /\ now - lastSet[key].at < lastSet[key].ttl)
            => IF engine = "API"
               THEN getCached(apiCache, key, now).val = lastSet[key].value
               ELSE getFromCache(cache, key, now).val = lastSet[key].value

-----------------------------------------------------------------------------
(* API: exponentialBackoff *)

Min(a, b) == IF a <= b THEN a ELSE b

\* Math.pow(base, n) for a whole n >= 0
RECURSIVE pow(_, _)
pow(base, n) == IF n = 0 THEN 1 ELSE base * pow(base, n - 1)

exponentialBackoff_uncapped(cfg, retryCount) ==
    cfg.BASE_DELAY * pow(2, retryCount - 1)

exponentialBackoff(cfg, retryCount) ==
    LET delay == cfg.BASE_DELAY * pow(2, retryCount - 1) IN
    Min(delay, cfg.MAX_DELAY)

(* Backoff specification: exponentialBackoff(1), exponentialBackoff(2), ...  *)
(* under a configuration drawn at the start.                                *)

InitBackoff ==
    /\ engine = "API"
    /\ now = 0
    /\ ret = NoRet
    /\ InitBreakers
    /\ InitCaches
    /\ InitCalls
    /\ InitApp
    /\ RETRY \in [BASE_DELAY : (1..MaxBaseDelay) \cup {1000},
                  MAX_DELAY : (1..MaxMaxDelay) \cup {5000},
                  MAX_ATTEMPTS : {MAX_ATTEMPTS}]
    /\ backoff = [retryCount |-> 0, delay |-> 0, previous |-> 0]

\* API.scrape, line 1338: const delay = exponentialBackoff(retries)
Backoff ==
    /\ backoff.retryCount < MaxRetryCount
    /\ backoff' = [retryCount |-> backoff.retryCount + 1,
                   delay |-> exponentialBackoff(RETRY, backoff.retryCount + 1),
                   previous |-> backoff.delay]
    /\ UNCHANGED <<engine, now, ret, breakerVars, cacheVars, RETRY, scrapeVars, appVars>>

NextBackoff == Backoff

SpecBackoff == InitBackoff /\ [][NextBackoff]_vars

\* C10: for every attempt >= 1 the delay is min(baseDelay * 2^(attempt-1),
\* maxDelay); it never exceeds maxDelay and never decreases from one attempt
\* to the next; baseDelay 1000 and maxDelay 5000 give 1000, 2000, 4000, 5000.
C10_BackoffDelay ==
    backoff.retryCount >= 1 =>
        /\ backoff.delay = Min(RETRY.BASE_DELAY * 2 ^ (backoff.retryCount - 1), RETRY.MAX_DELAY)
        /\ backoff.delay <= RETRY.MAX_DELAY
        /\ backoff.retryCount >= 2 => backoff.previous <= backoff.delay
        /\ (RETRY.BASE_DELAY = 1000 /\ RETRY.MAX_DELAY = 5000 /\ backoff.retryCount <= 4)
               => backoff.delay = <<1000, 2000, 4000, 5000>>[backoff.retryCount]

C10_Witness ==
    /\ RETRY.BASE_DELAY = 1000 /\ RETRY.MAX_DELAY = 5000
    /\ backoff.retryCount = 4
    /\ backoff.previous = 4000
    /\ backoff.delay = 5000

-----------------------------------------------------------------------------
(* API.scrape and fallbackScrape.  An action is the code a call runs       *)
(* between two awaits.  prefetchNextPage (a scrape of another url for the   *)
(* source 'default') is not modelled.                                       *)

\* `${url}_${JSON.stringify(options)}`: the options hold sourceId and that source's selectors
fingerprint(url, sourceId) == <<url, sourceId>>

\* requestFingerprints.has(fingerprint)
isDuplicate_never(fps, fp) == FALSE

isDuplicate(fps, fp) == fp \in fps

\* API.getMangaList / getMangaDetails / searchManga: the key they look up,
\* `mangalist_...` / `manga_...` / `search_...`, and the url they scrape
methodCacheKey(target) == <<"key", target>>
sourceUrl(target) == <<Sources[1], target>>

\* CONFIG.API.SOURCES.filter(s => s.id !== options.sourceId).sort(by priority)
Others(sourceId) == SelectSeq(Sources, LAMBDA s : s # sourceId)

FreeCalls(cs) == {c \in CallIds : cs[c].pc = "free"}

\* rateLimit: the time to wait before the request may go
rateLimitWait(sh, sourceId, t) ==
    LET timeSinceLastRequest == t - sh[sourceId].lastRequest IN
    IF timeSinceLastRequest < RATE_INTERVAL
    THEN RATE_INTERVAL - timeSinceLastRequest
    ELSE 0

\* the state a synchronous stretch of code works on
St ==
    [calls |-> calls, fps |-> requestFingerprints, timers |-> fingerprintTimers,
     breakers |-> circuitBreakers, health |-> sourceHealth, stuck |-> FALSE]

RECURSIVE enter(_, _, _, _, _)
RECURSIVE fallbackFrom(_, _, _)

\* scrape(url, options), lines 1276-1294: from the call to its first await, as call c
enter(st, c, url, sourceId, parent) ==
    LET fp == fingerprint(url, sourceId)
        frame == [FreeFrame EXCEPT !.url = url, !.sourceId = sourceId,
                                   !.parent = parent, !.regAt = now]
    IN
    IF isDuplicate(st.fps, fp)
    THEN [st EXCEPT !.calls[c] = [frame EXCEPT !.pc = "done", !.how = "duplicate"]]
    ELSE LET r == isCircuitBroken(st.breakers, sourceId, now)
             st1 == [st EXCEPT !.fps = @ \cup {fp},
                               !.timers = @ \cup {[fp |-> fp, at |-> now + DEDUP_WINDOW]},
                               !.breakers = r.breakers]
             w == rateLimitWait(st.health, sourceId, now)
         IN
         IF r.open
         THEN fallbackFrom([st1 EXCEPT !.calls[c] = [frame EXCEPT !.pc = "awaitChild"]], c, 1)
         ELSE [st1 EXCEPT !.calls[c] = [frame EXCEPT !.pc = "rate", !.t0 = now, !.at = now + w],
                          !.health[sourceId].lastRequest = IF w = 0 THEN now ELSE @]

\* fallbackScrape(url, options), lines 1587-1608: the loop of call c from its
\* i-th source on, up to the next await or the return
fallbackFrom(st, c, i) ==
    LET frame == st.calls[c]
        others == Others(frame.sourceId)
    IN
    IF i > Len(others)
    THEN [st EXCEPT !.calls[c] = [frame EXCEPT !.pc = "done", !.data = absent,
                                               !.how = "exhausted"]]
    ELSE LET r == isCircuitBroken(st.breakers, others[i], now) IN
         IF r.open
         THEN fallbackFrom(st, c, i + 1)
         ELSE IF FreeCalls(st.calls) = {}
              THEN [st EXCEPT !.stuck = TRUE]
              ELSE LET child == CHOOSE k \in FreeCalls(st.calls) :
                                    \A j \in FreeCalls(st.calls) : k <= j
                       st1 == [st EXCEPT !.breakers = r.breakers,
                                         !.calls[c] = [frame EXCEPT !.pc = "awaitChild",
                                                                    !.fb = i]]
                   IN enter(st1, child, <<others[i]>> \o frame.url, others[i], c)

\* the state after a synchronous stretch run by call c; a call of an outside
\* caller that has returned hands its value over and leaves
Commit(st, c) ==
    /\ ~st.stuck
    /\ requestFingerprints' = st.fps
    /\ fingerprintTimers' = st.timers
    /\ circuitBreakers' = st.breakers
    /\ sourceHealth' = st.health
    /\ IF st.calls[c].pc = "done" /\ st.calls[c].parent = 0
       THEN /\ calls' = [st.calls EXCEPT ![c] = FreeFrame]
            /\ ret' = [op |-> st.calls[c].how,
                       id |-> st.calls[c].url,
                       val |-> st.calls[c].data]
       ELSE /\ calls' = st.calls
            /\ ret' = NoRead

apiFrame == <<engine, now, circuitBreaker, requests, inFlight, streak, openedAt, trialPending,
              cache, cleanupTimers, lastSet, retryVars, appVars, abortControllers>>

\* API.getMangaDetails and the like, lines 1651-1660: a cache lookup under the
\* method's own key, then scrape(source.url + path, {sourceId: source.id, ...})
ApiScrape(c, target) ==
    /\ engine = "API"
    /\ c \in FreeCalls(calls) /\ \A k \in FreeCalls(calls) : c <= k
    /\ LET cached == getCached(apiCache, methodCacheKey(target), now) IN
       /\ apiCache' = cached.cache
       /\ IF cached.val # absent
          THEN /\ ret' = [op |-> "cached", id |-> sourceUrl(target), val |-> cached.val]
               /\ UNCHANGED <<calls, requestFingerprints, fingerprintTimers,
                              circuitBreakers, sourceHealth>>
          ELSE Commit(enter(St, c, sourceUrl(target), Sources[1], 0), c)
    /\ UNCHANGED <<apiFrame, activeRequests, requestQueue>>

\* scrape, lines 1294-1305: rateLimit has resolved; take a slot or wait for one
ApiRateDone(c) ==
    /\ engine = "API"
    /\ calls[c].pc = "rate"
    /\ calls[c].at <= now
    /\ sourceHealth' = [sourceHealth EXCEPT ![calls[c].sourceId].lastRequest =
                           IF calls[c].at > calls[c].t0 THEN calls[c].t0 ELSE @]
    /\ IF activeRequests >= MAX_CONCURRENT
       THEN /\ calls' = [calls EXCEPT ![c].pc = "queued"]
            /\ requestQueue' = Append(requestQueue, c)
            /\ UNCHANGED activeRequests
       ELSE /\ calls' = [calls EXCEPT ![c].pc = "fetch", ![c].retries = 0,
                                      ![c].at = now + FETCH_TIMEOUT]
            /\ activeRequests' = activeRequests + 1
            /\ UNCHANGED requestQueue
    /\ ret' = NoRead
    /\ UNCHANGED <<apiFrame, apiCache, circuitBreakers, requestFingerprints, fingerprintTimers>>

\* scrape, lines 1312-1331: the fetch answers and the document is extracted
ApiFetchOk(c, data) ==
    /\ engine = "API"
    /\ calls[c].pc = "fetch"
    /\ LET r == updateSourceHealth(sourceHealth, circuitBreakers, calls[c].sourceId, TRUE, now)
           st == [St EXCEPT !.health = r.health, !.breakers = r.breakers,
                            !.calls[c] = [@ EXCEPT !.pc = "done", !.data = data,
                                                   !.how = "fetched"]]
       IN Commit(st, c)
    /\ apiCache' = cacheResult(apiCache, calls[c].url, data, now)
    /\ UNCHANGED <<apiFrame, activeRequests, requestQueue>>

\* scrape, lines 1333-1348: the fetch fails or times out; retry after a
\* backoff, or report the failure and go to fallbackScrape
ApiFetchFail(c) ==
    /\ engine = "API"
    /\ calls[c].pc = "fetch"
    /\ LET retries == calls[c].retries + 1 IN
       IF retries < RETRY.MAX_ATTEMPTS
       THEN /\ calls' = [calls EXCEPT ![c].pc = "backoff", ![c].retries = retries,
                                      ![c].at = now + exponentialBackoff(RETRY, retries)]
            /\ ret' = NoRead
            /\ UNCHANGED <<requestFingerprints, fingerprintTimers, circuitBreakers,
                           sourceHealth>>
       ELSE LET r == updateSourceHealth(sourceHealth, circuitBreakers,
                                        calls[c].sourceId, FALSE, now)
                st == [St EXCEPT !.health = r.health, !.breakers = r.breakers,
                                 !.calls[c] = [@ EXCEPT !.pc = "awaitChild",
                                                        !.retries = retries]]
            IN Commit(fallbackFrom(st, c, 1), c)
    /\ UNCHANGED <<apiFrame, apiCache, activeRequests, requestQueue>>

\* scrape, lines 1325-1326 and 1333-1348: the document has arrived and
\* parseAndSanitize or extractData throws; the catch of the retry loop takes
\* the error like any other.  The frame keeps that an extraction has failed.
ApiExtractFail(c) ==
    /\ engine = "API"
    /\ calls[c].pc = "fetch"
    /\ LET retries == calls[c].retries + 1 IN
       IF retries < RETRY.MAX_ATTEMPTS
       THEN /\ calls' = [calls EXCEPT ![c].pc = "backoff", ![c].retries = retries,
                                      ![c].at = now + exponentialBackoff(RETRY, retries),
                                      ![c].how = "extraction"]
            /\ ret' = NoRead
            /\ UNCHANGED <<requestFingerprints, fingerprintTimers, circuitBreakers,
                           sourceHealth>>
       ELSE LET r == updateSourceHealth(sourceHealth, circuitBreakers,
                                        calls[c].sourceId, FALSE, now)
                st == [St EXCEPT !.health = r.health, !.breakers = r.breakers,
                                 !.calls[c] = [@ EXCEPT !.pc = "awaitChild",
                                                        !.retries = retries,
                                                        !.how = "extraction"]]
            IN Commit(fallbackFrom(st, c, 1), c)
    /\ UNCHANGED <<apiFrame, apiCache, activeRequests, requestQueue>>

\* scrape, line 1339: wait(delay) has resolved; next attempt
ApiBackoffDone(c) ==
    /\ engine = "API"
    /\ calls[c].pc = "backoff"
    /\ calls[c].at <= now
    /\ calls' = [calls EXCEPT ![c].pc = "fetch", ![c].at = now + FETCH_TIMEOUT]
    /\ ret' = NoRead
    /\ UNCHANGED <<apiFrame, apiCache, circuitBreakers, sourceHealth, activeRequests,
                   requestQueue, requestFingerprints, fingerprintTimers>>

\* fallbackScrape, lines 1595-1600: the awaited scrape has returned
ApiChildReturned(c) ==
    /\ engine = "API"
    /\ calls[c].pc = "awaitChild"
    /\ \E k \in CallIds :
          /\ calls[k].parent = c
          /\ calls[k].pc = "done"
          /\ LET st == [St EXCEPT !.calls[k] = FreeFrame] IN
             IF calls[k].data # absent
             THEN Commit([st EXCEPT !.calls[c] = [@ EXCEPT !.pc = "done",
                                                         !.data = calls[k].data,
                                                         !.how = "fallback"]], c)
             ELSE Commit(fallbackFrom(st, c, calls[c].fb + 1), c)
    /\ UNCHANGED <<apiFrame, apiCache, activeRequests, requestQueue>>

\* scrape, line 1284: setTimeout(() => requestFingerprints.delete(fingerprint), 5000)
ApiFingerprintExpiry_keepsFingerprint(timer) ==
    /\ engine = "API"
    /\ timer \in fingerprintTimers
    /\ timer.at <= now
    /\ requestFingerprints' = requestFingerprints
    /\ fingerprintTimers' = fingerprintTimers \ {timer}
    /\ ret' = NoRead
    /\ UNCHANGED <<apiFrame, apiCache, circuitBreakers, sourceHealth, calls,
                   activeRequests, requestQueue>>

ApiFingerprintExpiry(timer) ==
    /\ engine = "API"
    /\ timer \in fingerprintTimers
    /\ timer.at <= now
    /\ requestFingerprints' = requestFingerprints \ {timer.fp}
    /\ fingerprintTimers' = fingerprintTimers \ {timer}
    /\ ret' = NoRead
    /\ UNCHANGED <<apiFrame, apiCache, circuitBreakers, sourceHealth, calls,
                   activeRequests, requestQueue>>

-----------------------------------------------------------------------------
(* ScrapingEngine.scrape and tryFallback.  options.bypassCache, which no    *)
(* caller sets, is left out; state.addError keeps a log nothing reads.      *)

\* the options a cache key stands for (the endpoint is the same for all);
\* the first key stands for options without a source
optionsOf(key) ==
    [source |-> IF key = "k3" THEN Sources[2] ELSE IF key = "k2" THEN Sources[1] ELSE "none",
     fallback |-> key = "k2",
     ttl |-> optionsTtl(key)]

\* `${endpoint}-${JSON.stringify(options)}`
cacheKey(options) == CHOOSE key \in Keys : optionsOf(key) = options

\* CONFIG.sources[i].fallback: set for the second source only
fallbackFlag(s) == s = Sources[2]

\* tryFallback: CONFIG.sources.filter(s => s.fallback && s.id !== options.source).sort(by priority)
fallbackSources(source) == SelectSeq(Sources, LAMBDA s : fallbackFlag(s) /\ s # source)

\* RateLimiter.allow(): the value returned and this.requests afterwards
allow(reqs, t) ==
    LET kept == SelectSeq(reqs, LAMBDA time : t - time < RATE_WINDOW) IN
    IF Len(kept) < rateLimit
    THEN [ok |-> TRUE, requests |-> Append(kept, t)]
    ELSE [ok |-> FALSE, requests |-> kept]

\* the state a synchronous stretch of ScrapingEngine code works on
EngineSt ==
    [calls |-> calls, cache |-> cache, timers |-> cleanupTimers,
     breaker |-> circuitBreaker, requests |-> requests, stuck |-> FALSE]

\* scrape(endpoint, options), lines 41-62: from the call to its await, as call c;
\* a call that throws is done with nothing to return
engineEnter(st, c, key, parent) ==
    LET frame == [FreeFrame EXCEPT !.key = key, !.sourceId = optionsOf(key).source,
                                   !.parent = parent, !.regAt = now]
        cached == getFromCache(st.cache, key, now)
        limit == allow(st.requests, now)
        gate == isOpen(st.breaker, now)
        st1 == [st EXCEPT !.cache = cached.cache]
        st2 == [st1 EXCEPT !.requests = limit.requests]
        st3 == [st2 EXCEPT !.breaker = gate.breaker]
    IN
    IF cached.val # absent
    THEN [st1 EXCEPT !.calls[c] = [frame EXCEPT !.pc = "done", !.data = cached.val,
                                                !.how = "cached"]]
    ELSE IF ~limit.ok
         THEN [st2 EXCEPT !.calls[c] = [frame EXCEPT !.pc = "done", !.how = "rateLimited"]]
         ELSE IF gate.open
              THEN [st3 EXCEPT !.calls[c] = [frame EXCEPT !.pc = "done",
                                                          !.how = "breakerOpen"]]
              ELSE [st3 EXCEPT !.calls[c] = [frame EXCEPT !.pc = "request"]]

\* tryFallback(endpoint, options), lines 221-241: the loop of call c from its
\* i-th source on, up to the next await or the throw
engineFallbackFrom(st, c, i) ==
    LET frame == st.calls[c]
        options == optionsOf(frame.key)
        sources == fallbackSources(options.source)
    IN
    IF i > Len(sources)
    THEN [st EXCEPT !.calls[c] = [frame EXCEPT !.pc = "done", !.data = absent,
                                               !.how = "allFailed"]]
    ELSE IF FreeCalls(st.calls) = {}
         THEN [st EXCEPT !.stuck = TRUE]
         ELSE LET child == CHOOSE k \in FreeCalls(st.calls) :
                               \A j \in FreeCalls(st.calls) : k <= j
                  st1 == [st EXCEPT !.calls[c] = [frame EXCEPT !.pc = "awaitChild",
                                                               !.fb = i]]
              IN engineEnter(st1, child,
                             cacheKey([options EXCEPT !.source = sources[i],
                                                      !.fallback = FALSE]), c)

EngineCommit(st, c) ==
    /\ ~st.stuck
    /\ cache' = st.cache
    /\ cleanupTimers' = st.timers
    /\ circuitBreaker' = st.breaker
    /\ requests' = st.requests
    /\ IF st.calls[c].pc = "done" /\ st.calls[c].parent = 0
       THEN /\ calls' = [st.calls EXCEPT ![c] = FreeFrame]
            /\ ret' = [op |-> st.calls[c].how,
                       id |-> st.calls[c].key,
                       val |-> st.calls[c].data]
       ELSE /\ calls' = st.calls
            /\ ret' = NoRead

engineFrame == <<engine, now, sourceHealth, circuitBreakers, inFlight, streak, openedAt,
                 trialPending, apiCache, lastSet, retryVars, appVars, activeRequests, requestQueue,
                 requestFingerprints, fingerprintTimers, abortControllers>>

\* api.scrape(endpoint, options) by a caller outside the engine
EngineScrape(c, key) ==
    /\ engine = "ScrapingEngine"
    /\ c \in FreeCalls(calls) /\ \A k \in FreeCalls(calls) : c <= k
    /\ EngineCommit(engineEnter(EngineSt, c, key, 0), c)
    /\ UNCHANGED engineFrame

\* scrape, lines 62-68: makeRequest resolves.  With options.source it never
\* does: `response` is then the object that extractData returns, which has no
\* `ok` (lines 89-90, 113-115), and for a source without selectors
\* extractData throws; only the plain fetch of lines 92-108 can succeed.
EngineRequestOk(c, result) ==
    /\ engine = "ScrapingEngine"
    /\ calls[c].pc = "request"
    /\ optionsOf(calls[c].key).source = "none"
    /\ LET key == calls[c].key
           ttl == optionsOf(key).ttl
           st == [EngineSt EXCEPT
                     !.breaker = recordSuccess(circuitBreaker),
                     !.cache = addToCache(cache, key, result, ttl, now),
                     !.timers = @ \cup {[key |-> key, at |-> now + ttl]},
                     !.calls[c] = [@ EXCEPT !.pc = "done", !.data = result,
                                            !.how = "fetched"]]
       IN EngineCommit(st, c)
    /\ UNCHANGED engineFrame

\* scrape, lines 69-79: makeRequest rejects
EngineRequestFail(c) ==
    /\ engine = "ScrapingEngine"
    /\ calls[c].pc = "request"
    /\ LET st == [EngineSt EXCEPT !.breaker = recordFailure(circuitBreaker, now)] IN
       IF optionsOf(calls[c].key).fallback
       THEN EngineCommit(engineFallbackFrom(st, c, 1), c)
       ELSE EngineCommit([st EXCEPT !.calls[c] = [@ EXCEPT !.pc = "done",
                                                         !.how = "failed"]], c)
    /\ UNCHANGED engineFrame

\* tryFallback, lines 229-237: the awaited scrape has returned or thrown
EngineChildReturned(c) ==
    /\ engine = "ScrapingEngine"
    /\ calls[c].pc = "awaitChild"
    /\ \E k \in CallIds :
          /\ calls[k].parent = c
          /\ calls[k].pc = "done"
          /\ LET st == [EngineSt EXCEPT !.calls[k] = FreeFrame] IN
             IF calls[k].how \in {"cached", "fetched"}
             THEN EngineCommit([st EXCEPT !.calls[c] = [@ EXCEPT !.pc = "done",
                                                               !.data = calls[k].data,
                                                               !.how = "fallback"]], c)
             ELSE EngineCommit(engineFallbackFrom(st, c, calls[c].fb + 1), c)
    /\ UNCHANGED engineFrame

\* the clock advances; timers that are due fire first, and a fetch does not
\* outlast its timeout
ApiTick ==
    /\ engine = "API"
    /\ now < MaxApiTime
    /\ \A timer \in fingerprintTimers : timer.at > now
    /\ \A c \in CallIds : calls[c].pc \in {"rate", "fetch", "backoff"} => calls[c].at > now
    /\ now' = now + 1
    /\ ret' = NoRead
    /\ UNCHANGED <<engine, breakerVars, cacheVars, retryVars, appVars, scrapeVars>>

\* the clock advances; cleanup timers that are due fire first
EngineTick ==
    /\ engine = "ScrapingEngine"
    /\ now < MaxEngineTime
    /\ \A timer \in cleanupTimers : timer.at > now
    /\ now' = now + 1
    /\ ret' = NoRead
    /\ UNCHANGED <<engine, breakerVars, cacheVars, retryVars, appVars, scrapeVars>>

\* the outside callers of API.scrape
InitApiScrape ==
    /\ engine = "API"
    /\ now = 0
    /\ ret = NoRead
    /\ InitBreakers
    /\ InitCaches
    /\ InitRetry
    /\ InitCalls
    /\ InitApp

NextApi ==
    \/ \E c \in CallIds, target \in Targets : ApiScrape(c, target)
    \/ \E c \in CallIds : ApiRateDone(c)
    \/ \E c \in CallIds, data \in Values : ApiFetchOk(c, data)
    \/ \E c \in CallIds : ApiFetchFail(c)
    \/ \E c \in CallIds : ApiExtractFail(c)
    \/ \E c \in CallIds : ApiBackoffDone(c)
    \/ \E c \in CallIds : ApiChildReturned(c)
    \/ \E timer \in fingerprintTimers : ApiFingerprintExpiry(timer)
    \/ ApiTick

SpecApi == InitApiScrape /\ [][NextApi]_vars

\* the outside callers of ScrapingEngine.scrape
InitEngineScrape ==
    /\ engine = "ScrapingEngine"
    /\ now = 0
    /\ ret = NoRead
    /\ InitBreakers
    /\ InitCaches
    /\ InitRetry
    /\ InitCalls
    /\ InitApp

NextEngine ==
    \/ \E c \in CallIds, key \in EngineKeys : EngineScrape(c, key)
    \/ \E c \in CallIds, result \in Values : EngineRequestOk(c, result)
    \/ \E c \in CallIds : EngineRequestFail(c)
    \/ \E c \in CallIds : EngineChildReturned(c)
    \/ \E timer \in cleanupTimers : EngineCleanup(timer)
    \/ EngineTick

SpecEngine == InitEngineScrape /\ [][NextEngine]_vars

-----------------------------------------------------------------------------
(* Properties of the scrape calls *)

\* a call that has been made and has not returned
Live(c) == calls[c].pc \notin {"free", "done"}

\* a network fetch of call c is in flight, its retries and the waits between them included
Fetching(c) == calls[c].pc \in {"fetch", "backoff"}

\* this step is a call of API.scrape(url, {sourceId: Sources[1]}) by an outside
\* caller: the call returns at once, or it stays as a call
MadeApi(url) ==
    \/ ret'.op # "none" /\ ret'.id = url /\ calls' = calls
    \/ \E c \in CallIds : /\ calls[c].pc = "free"
                          /\ calls'[c].pc # "free"
                          /\ calls'[c].parent = 0
                          /\ calls'[c].url = url

\* this step is a call of ScrapingEngine.scrape with cache key `key` by an outside caller
MadeEngine(key) ==
    \/ ret'.op # "none" /\ ret'.id = key /\ calls' = calls
    \/ \E c \in CallIds : /\ calls[c].pc = "free"
                          /\ calls'[c].pc # "free"
                          /\ calls'[c].parent = 0
                          /\ calls'[c].key = key

\* the call returns the duplicate signal or a cached value, and starts nothing
Rejected ==
    /\ calls' = calls
    /\ ret'.op \in {"duplicate", "cached"}
    /\ ret'.op = "duplicate" => ret'.val = absent

\* C4: a scrape call made while a call with the same fingerprint, made less
\* than a deduplication window ago, has not returned starts no fetch: it
\* returns the duplicate signal (null).
C4_DuplicateWithinWindow ==
    [][IF engine = "API"
       THEN \A target \in Targets :
               (/\ MadeApi(sourceUrl(target))
                /\ \E k \in CallIds : /\ Live(k)
                                      /\ calls[k].url = sourceUrl(target)
                                      /\ calls[k].sourceId = Sources[1]
                                      /\ now - calls[k].regAt < DEDUP_WINDOW)
                   => Rejected
       ELSE \A key \in EngineKeys :
               (/\ MadeEngine(key)
                /\ \E k \in CallIds : /\ Live(k)
                                      /\ calls[k].key = key
                                      /\ now - calls[k].regAt < DEDUP_WINDOW)
                   => Rejected]_vars

\* C5 (as stated): API.scrape never has two fetches of the same fingerprint in
\* flight together, however long the first one lasts.
C5_OneFetchPerFingerprint ==
    engine = "API" =>
        \A c1, c2 \in CallIds :
            (c1 # c2 /\ Fetching(c1) /\ Fetching(c2))
                => fingerprint(calls[c1].url, calls[c1].sourceId)
                       # fingerprint(calls[c2].url, calls[c2].sourceId)

\* C5 (amended): two fetches of API.scrape for the same fingerprint are in
\* flight together only if their calls were made at least a deduplication
\* window apart; within the window of a call no second fetch of its
\* fingerprint starts.
C5_OneFetchPerFingerprintPerWindow ==
    engine = "API" =>
        \A c1, c2 \in CallIds :
            (/\ c1 # c2
             /\ Fetching(c1) /\ Fetching(c2)
             /\ fingerprint(calls[c1].url, calls[c1].sourceId)
                    = fingerprint(calls[c2].url, calls[c2].sourceId)
             /\ calls[c1].regAt <= calls[c2].regAt)
                => calls[c2].regAt - calls[c1].regAt >= DEDUP_WINDOW

\* two fetches of one fingerprint in flight, the second call made after the
\* window of the first
C5_Witness ==
    /\ engine = "API"
    /\ \E c1, c2 \in CallIds :
          /\ c1 # c2
          /\ Fetching(c1) /\ Fetching(c2)
          /\ calls[c1].url = calls[c2].url
          /\ calls[c1].sourceId = calls[c2].sourceId
          /\ calls[c2].regAt - calls[c1].regAt >= DEDUP_WINDOW

\* C8: when a scrape call returns the result of a fallback source, a cache
\* lookup under the call's own key finds that result.
C8_FallbackCachedUnderOwnKey ==
    ret.op = "fallback" =>
        IF engine = "API"
        THEN getCached(apiCache, ret.id, now).val = ret.val
        ELSE getFromCache(cache, ret.id, now).val = ret.val

\* C9: a scrape call for a target whose cache entry is fresh returns the
\* cached value, starts no request and leaves breaker and rate-limiter state
\* as they were.
C9_FreshEntryServedFromCache ==
    [][IF engine = "API"
       THEN \A target \in Targets :
               (/\ MadeApi(sourceUrl(target))
                /\ getCached(apiCache, sourceUrl(target), now).val # absent)
                   => /\ ret'.op = "cached"
                      /\ ret'.val = getCached(apiCache, sourceUrl(target), now).val
                      /\ calls' = calls
                      /\ UNCHANGED <<circuitBreakers, sourceHealth, activeRequests>>
       ELSE \A key \in EngineKeys :
               (/\ MadeEngine(key)
                /\ getFromCache(cache, key, now).val # absent)
                   => /\ ret'.op = "cached"
                      /\ ret'.val = getFromCache(cache, key, now).val
                      /\ calls' = calls
                      /\ UNCHANGED <<circuitBreaker, requests>>]_vars

-----------------------------------------------------------------------------
(* Retries and fallback *)

\* CONFIG.network.retryAttempts
retryAttempts == 3

\* the attempts a scrape call may make against one source
maxAttempts == IF engine = "API" THEN RETRY.MAX_ATTEMPTS ELSE retryAttempts

\* in this step call c, whose fetch has just failed, gives up on its source:
\* it goes to the fallback sources or returns without a result
GivesUp(c) ==
    /\ calls[c].pc \in {"fetch", "request"}
    /\ \/ calls'[c].pc = "awaitChild"
       \/ calls'[c].pc = "done" /\ calls'[c].data = absent
       \/ calls'[c].pc = "free" /\ ret'.val = absent

\* the failures on record at the breaker of source s
Failures(s) == IF engine = "API" THEN sourceHealth[s].failures ELSE circuitBreaker.failures

\* C11: a scrape call makes at most maxAttempts attempts against its source,
\* waits delay(k) after the k-th failed attempt before the next one, and gives
\* up on the source, reporting one failure, only after maxAttempts failed attempts.
C11_RetriesBeforeFallback ==
    [][\A c \in CallIds :
          /\ (calls'[c].pc \in {"fetch", "request"}) => calls'[c].retries < maxAttempts
          /\ (calls[c].pc = "fetch" /\ calls'[c].pc = "backoff")
                 => /\ calls'[c].retries = calls[c].retries + 1
                    /\ calls'[c].at = now + exponentialBackoff(RETRY, calls'[c].retries)
          /\ (calls[c].pc = "backoff" /\ calls'[c].pc = "fetch") => now >= calls[c].at
          /\ GivesUp(c)
                 => /\ calls[c].retries + 1 = maxAttempts
                    /\ Failures(calls[c].sourceId)' = Failures(calls[c].sourceId) + 1]_vars

\* the call made in this step has gone to the fallback sources: it awaits one
\* of them, or the loop over them has ended without a result
WentToFallback ==
    \/ \E c \in CallIds : /\ calls[c].pc = "free"
                          /\ calls'[c].pc = "awaitChild"
                          /\ calls'[c].parent = 0
    \/ calls' = calls /\ ret'.op \in {"exhausted", "allFailed"}

\* where a call whose fetch is under way or about to be sent is suspended
ContactPcs == {"rate", "queued", "fetch", "backoff", "request"}

\* a fetch to source s is under way or about to be sent
Contacting(c, s) ==
    /\ calls[c].pc \in ContactPcs
    /\ calls[c].sourceId = s

\* C12: a scrape call made while the breaker of its primary source is open
\* sends no fetch to the primary source and goes on to the fallback sources.
C12_OpenBreakerSkipsToFallback ==
    [][IF engine = "API"
       THEN \A target \in Targets :
               (/\ MadeApi(sourceUrl(target))
                /\ ~isDuplicate(requestFingerprints,
                                fingerprint(sourceUrl(target), Sources[1]))
                /\ isCircuitBroken(circuitBreakers, Sources[1], now).open)
                   => /\ WentToFallback
                      /\ \A c \in CallIds :
                            Contacting(c, Sources[1])' => Contacting(c, Sources[1])
       ELSE \A key \in EngineKeys :
               (/\ MadeEngine(key)
                /\ getFromCache(cache, key, now).val = absent
                /\ allow(requests, now).ok
                /\ isOpen(circuitBreaker, now).open)
                   => /\ WentToFallback
                      /\ \A c \in CallIds :
                            Contacting(c, optionsOf(key).source)'
                                => Contacting(c, optionsOf(key).source)]_vars

\* the calls on whose behalf call c runs
RECURSIVE Ancestors(_, _)
Ancestors(cs, c) ==
    IF cs[c].parent = 0 THEN {} ELSE {cs[c].parent} \cup Ancestors(cs, cs[c].parent)

\* the sources the fallback loop of a call goes through, in its order
LoopSources(frame) ==
    IF engine = "API"
    THEN Others(frame.sourceId)
    ELSE fallbackSources(frame.sourceId)

\* the breaker of source s is open now
OpenNow(s) ==
    IF engine = "API"
    THEN isCircuitBroken(circuitBreakers, s, now).open
    ELSE isOpen(circuitBreaker, now).open

\* in this step call k is started by the fallback loop of call c
Started(c, k) ==
    /\ calls[k].pc = "free"
    /\ calls'[k].pc # "free"
    /\ calls'[k].parent = c

\* in this step the fallback loop of call c takes the result of its call k
Taken(c, k) ==
    /\ calls[k].pc = "done"
    /\ calls[k].parent = c
    /\ calls[c].pc = "awaitChild"
    /\ calls'[k] # calls[k]

\* C13: the fallback of a scrape call contacts the remaining sources in
\* ascending priority order (each loop moves forward, passing over open
\* breakers only, and never goes back to a source the call has already been
\* through), contacts no source whose breaker is open, and contacts no further
\* source once one has succeeded.
C13_FallbackOrder ==
    [][\A c, k \in CallIds :
          /\ Started(c, k)
                => LET was == IF calls[c].pc = "awaitChild" THEN calls[c].fb ELSE 0
                       is == calls'[c].fb
                   IN /\ is > was
                      /\ is <= Len(LoopSources(calls'[c]))
                      /\ calls'[k].sourceId = LoopSources(calls'[c])[is]
                      /\ \A j \in (was + 1)..(is - 1) : OpenNow(LoopSources(calls'[c])[j])
                      /\ calls'[k].pc \in ContactPcs => ~OpenNow(calls'[k].sourceId)
                      /\ \A a \in Ancestors(calls', k) :
                            calls'[a].sourceId # calls'[k].sourceId
          /\ (Taken(c, k) /\ calls[k].data # absent)
                => /\ \A j \in CallIds : ~Started(c, j)
                   /\ \/ calls'[c].pc = "done" /\ calls'[c].data = calls[k].data
                      \/ calls'[c].pc = "free" /\ ret'.val = calls[k].data]_vars

\* C13 without its last clause on the sources already gone through
C13_LoopOrder ==
    [][\A c, k \in CallIds :
          Started(c, k)
             => LET was == IF calls[c].pc = "awaitChild" THEN calls[c].fb ELSE 0
                    is == calls'[c].fb
                IN /\ is > was
                   /\ calls'[k].sourceId = LoopSources(calls'[c])[is]
                   /\ \A j \in (was + 1)..(is - 1) : OpenNow(LoopSources(calls'[c])[j])
                   /\ calls'[k].pc \in ContactPcs => ~OpenNow(calls'[k].sourceId)]_vars

\* C37: within one top-level scrape call each source is tried at most once:
\* no call made by a nested fallback contacts a source that a call above it,
\* the primary included, has already been through.
C37_SourceTriedOnce ==
    \A c \in CallIds :
        calls[c].pc \in ContactPcs
            => \A a \in Ancestors(calls, c) : calls[a].sourceId # calls[c].sourceId

\* the ways a scrape call ends by throwing: ScrapingEngine.scrape line 53
\* ('Rate limit exceeded'), line 58 ('Circuit breaker is open'), line 78 (the
\* error of makeRequest, rethrown as it is) and tryFallback line 240 ('All
\* sources failed'); API.scrape has no throw of its own
Throws == {"rateLimited", "breakerOpen", "failed", "allFailed"}

\* C14: a scrape call never completes by throwing; when its source and every
\* fallback source have failed it returns the absent result.
C14_NeverThrows ==
    /\ ret.op \notin Throws
    /\ ret.op \in {"exhausted", "allFailed", "failed"} => ret.val = absent

\* in this step call c reports the outcome of its request to the breaker of
\* its source: a success, or the failure that ends its attempts
Reports(c) ==
    /\ calls[c].pc \in {"fetch", "request"}
    /\ calls'[c].pc \notin {"fetch", "request", "backoff"}

\* C15: a report for one source leaves the breaker's answer for every other
\* source as it was: whether a request to a source is short-circuited depends
\* on the reports for that source only.
C15_SourceIsolation ==
    [][\A c \in CallIds, s \in SourceIds :
          (Reports(c) /\ s # calls[c].sourceId) => OpenNow(s)' = OpenNow(s)]_vars

-----------------------------------------------------------------------------
(* Reports to a breaker that is closed or half-open *)

\* the failure counter of breaker id
FailureCount(id) ==
    IF id = "engine" THEN circuitBreaker.failures ELSE sourceHealth[id].failures

\* C16: a success report that reaches a breaker in HALF_OPEN or CLOSED sets the
\* failure counter to zero and leaves the breaker CLOSED, and a check made
\* next does not block.
C16_SuccessCloses ==
    \A id \in BreakerIds :
        (/\ ret.op = "recordSuccess"
         /\ ret.id = id
         /\ ret.was \in {"HALF_OPEN", "CLOSED"})
            => /\ FailureCount(id) = 0
               /\ StateOf(id) = "CLOSED"
               /\ IF id = "engine"
                  THEN ~isOpen(circuitBreaker, now).open
                  ELSE ~isCircuitBroken(circuitBreakers, id, now).open

\* a success report has reached a half-open breaker
C16_Witness ==
    \E id \in BreakerIds :
        /\ ret.op = "recordSuccess"
        /\ ret.id = id
        /\ ret.was = "HALF_OPEN"
        /\ StateOf(id) = "CLOSED"
        /\ FailureCount(id) = 0

C36_OpensOnlyAfterThresholdFailures ==
    [][\A id \in BreakerIds :
          (StateOf(id) = "CLOSED" /\ StateOf(id)' = "OPEN")
              => /\ streak'[id] >= Threshold(id)
                 /\ ret'.op = "recordFailure" /\ ret'.id = id]_vars

\* a closed breaker has been opened by the failure report that brought its
\* failures since the last success to the threshold
C36_Witness ==
    \E id \in BreakerIds :
        /\ ret.op = "recordFailure"
        /\ ret.id = id
        /\ ret.was = "CLOSED"
        /\ StateOf(id) = "OPEN"
        /\ streak[id] = Threshold(id)
        /\ FailureCount(id) = Threshold(id)

\* C39: in every state of the CircuitBreaker class, CLOSED goes with fewer
\* failures than the threshold, OPEN and HALF_OPEN with at least as many.
C39_StateMatchesFailures ==
    /\ circuitBreaker.state \in {"CLOSED", "OPEN", "HALF_OPEN"}
    /\ circuitBreaker.state = "CLOSED" => circuitBreaker.failures < failureThreshold
    /\ circuitBreaker.state \in {"OPEN", "HALF_OPEN"}
          => circuitBreaker.failures >= failureThreshold

\* the breaker is half-open after isOpen let a trial through, with more
\* failures on record than the threshold
C39_Witness ==
    /\ engine = "ScrapingEngine"
    /\ ret.op = "isOpen"
    /\ circuitBreaker.state = "HALF_OPEN"
    /\ circuitBreaker.failures > failureThreshold

-----------------------------------------------------------------------------
(* The rate-limit gates under concurrent callers *)

\* In this part a frame is a caller at the gate of scrape: pc "rate" while
\* `await rateLimit(sourceId)` is pending, pc "passed" once the caller is
\* through, with `at` the time it got through.

rateFrame == <<engine, circuitBreaker, circuitBreakers, inFlight, streak, openedAt,
               trialPending, cacheVars, retryVars, appVars, activeRequests, requestQueue,
               requestFingerprints, fingerprintTimers, abortControllers>>

\* API.scrape, line 1294: `await rateLimit(sourceId)`, up to its await or return
ApiRateLimit(c, s) ==
    /\ engine = "API"
    /\ c \in FreeCalls(calls) /\ \A k \in FreeCalls(calls) : c <= k
    /\ LET w == rateLimitWait(sourceHealth, s, now) IN
       /\ calls' = [calls EXCEPT ![c] = [FreeFrame EXCEPT !.pc = "rate", !.sourceId = s,
                                                          !.t0 = now, !.at = now + w,
                                                          !.regAt = now]]
       /\ sourceHealth' = [sourceHealth EXCEPT ![s].lastRequest = IF w = 0 THEN now ELSE @]
    /\ ret' = NoRead
    /\ UNCHANGED <<now, requests, rateFrame>>

\* rateLimit, lines 1384-1386: the wait is over, `source.lastRequest = now`
\* with the `now` of line 1377, and the caller goes on to its request
ApiRateLimitReturns(c) ==
    /\ engine = "API"
    /\ calls[c].pc = "rate"
    /\ calls[c].at <= now
    /\ sourceHealth' = [sourceHealth EXCEPT ![calls[c].sourceId].lastRequest =
                           IF calls[c].at > calls[c].t0 THEN calls[c].t0 ELSE @]
    /\ calls' = [calls EXCEPT ![c].pc = "passed", ![c].at = now]
    /\ ret' = [op |-> "rateLimit", id |-> calls[c].sourceId, val |-> TRUE]
    /\ UNCHANGED <<now, requests, rateFrame>>

\* ScrapingEngine.scrape, lines 51-54: `if (!this.rateLimiter.allow()) throw`,
\* by a caller whose options name source s
EngineAllow(c, s) ==
    /\ engine = "ScrapingEngine"
    /\ c \in FreeCalls(calls) /\ \A k \in FreeCalls(calls) : c <= k
    /\ LET r == allow(requests, now) IN
       /\ requests' = r.requests
       /\ calls' = IF r.ok
                   THEN [calls EXCEPT ![c] = [FreeFrame EXCEPT !.pc = "passed", !.sourceId = s,
                                                               !.t0 = now, !.at = now,
                                                               !.regAt = now]]
                   ELSE calls
       /\ ret' = [op |-> "allow", id |-> s, val |-> r.ok]
    /\ UNCHANGED <<now, sourceHealth, rateFrame>>

\* the request of a caller that is through the gate ends
RateLeave(c) ==
    /\ calls[c].pc = "passed"
    /\ calls' = [calls EXCEPT ![c] = FreeFrame]
    /\ ret' = NoRead
    /\ UNCHANGED <<now, sourceHealth, requests, rateFrame>>

\* time passes, unless the wait of a caller is over
RateTick ==
    /\ now < MaxRateTime
    /\ \A c \in CallIds : calls[c].pc = "rate" => calls[c].at > now
    /\ now' = now + 1
    /\ ret' = NoRead
    /\ UNCHANGED <<calls, sourceHealth, requests, rateFrame>>

InitRate ==
    /\ engine \in {"ScrapingEngine", "API"}
    /\ now = 0
    /\ ret = NoRead
    /\ InitBreakers
    /\ InitCaches
    /\ InitRetry
    /\ InitCalls
    /\ InitApp

NextRate ==
    \/ \E c \in CallIds, s \in GatedSources : ApiRateLimit(c, s)
    \/ \E c \in CallIds : ApiRateLimitReturns(c)
    \/ \E c \in CallIds, s \in GatedSources : EngineAllow(c, s)
    \/ \E c \in CallIds : RateLeave(c)
    \/ RateTick

SpecRate == InitRate /\ [][NextRate]_vars

\* the ceiling N and the rolling window W of the engine in use
Ceiling == IF engine = "API" THEN MAX_REQUESTS ELSE rateLimit
Window == IF engine = "API" THEN MAX_REQUESTS * RATE_INTERVAL ELSE RATE_WINDOW

\* the callers that got through the gate for source s in the window starting at t
PassedIn(s, t) ==
    {c \in CallIds : /\ calls[c].pc = "passed"
                     /\ calls[c].sourceId = s
                     /\ t <= calls[c].at
                     /\ calls[c].at < t + Window}

\* C18: in every rolling window, no more than the ceiling of requests get
\* through the rate-limit gate for one source, however the callers interleave.
C18_RateCeiling ==
    \A s \in SourceIds, t \in 0..MaxRateTime : Cardinality(PassedIn(s, t)) <= Ceiling

\* C19: a scrape call that arrives when the rate ceiling is reached is not
\* dropped or failed with a rate-limit error; it is delayed and then proceeds.
\* (No option of scrape asks for rejection.)
C19_NoRateLimitError ==
    ret.op # "rateLimited"

-----------------------------------------------------------------------------
(* Expiry of the request fingerprints *)

\* the fingerprints of the calls this step rejects as duplicates: the call of
\* an outside caller that returns null at once, or a call made by fallbackScrape
RejectedAsDuplicate ==
    (IF calls' = calls /\ ret'.op = "duplicate"
     THEN {fingerprint(ret'.id, Sources[1])}
     ELSE {})
    \cup {fingerprint(calls'[c].url, calls'[c].sourceId) :
            c \in {k \in CallIds : /\ calls[k].pc = "free"
                                   /\ calls'[k].pc = "done"
                                   /\ calls'[k].how = "duplicate"}}

\* C20: a fingerprint added to the in-flight set gets a removal timer one
\* deduplication window ahead; the fingerprint is in the set exactly while its
\* timer is pending, the clock never passes a pending timer, and the timer
\* takes the fingerprint out at its time whatever the state of the call; so a
\* call is rejected as a duplicate only within the window of the call that
\* added its fingerprint.
C20_FingerprintExpiresAfterWindow ==
    [][engine = "API" =>
          /\ \A fp \in requestFingerprints' \ requestFingerprints :
                [fp |-> fp, at |-> now + DEDUP_WINDOW] \in fingerprintTimers'
          /\ \A fp \in requestFingerprints :
                \E timer \in fingerprintTimers : timer.fp = fp
          /\ \A timer \in fingerprintTimers :
                /\ timer.fp \in requestFingerprints
                /\ now' <= timer.at
                /\ timer \in fingerprintTimers' => timer.fp \in requestFingerprints'
                /\ timer \notin fingerprintTimers' =>
                      /\ now = timer.at
                      /\ timer.fp \notin requestFingerprints'
          /\ \A fp \in RejectedAsDuplicate :
                \E timer \in fingerprintTimers :
                    /\ timer.fp = fp
                    /\ now - (timer.at - DEDUP_WINDOW) <= DEDUP_WINDOW]_vars

\* the fingerprint of a call has been removed at the end of its window while
\* the call has not returned
C20_Witness ==
    /\ engine = "API"
    /\ \E c \in CallIds :
          /\ Live(c)
          /\ now >= calls[c].regAt + DEDUP_WINDOW
          /\ fingerprint(calls[c].url, calls[c].sourceId) \notin requestFingerprints

-----------------------------------------------------------------------------
(* The frame of a duplicate rejection *)

\* C21: a call rejected as a duplicate returns null, it does not throw, and
\* it leaves the circuit breakers, the rate-limiter state (sourceHealth holds
\* lastRequest), the caches, the request queue and the active-request counter
\* as they were; so does a call that fallbackScrape makes with a fingerprint
\* still in the set.
C21_DuplicateChangesNothing ==
    [][engine = "API" =>
          /\ (calls' = calls /\ ret'.op = "duplicate") =>
                /\ ret'.val = absent
                /\ UNCHANGED <<circuitBreaker, circuitBreakers, sourceHealth, requests,
                               cache, apiCache, requestQueue, activeRequests>>
          /\ \A c \in FreeCalls(calls), fp \in requestFingerprints :
                LET st == enter(St, c, fp[1], fp[2], 0) IN
                /\ st.calls[c].pc = "done"
                /\ st.calls[c].how = "duplicate"
                /\ st.calls[c].data = absent
                /\ st.breakers = circuitBreakers
                /\ st.health = sourceHealth
                /\ st.fps = requestFingerprints
                /\ st.timers = fingerprintTimers]_vars

\* a call has been rejected as a duplicate while a request holds a slot and
\* the cache has an entry
C21_Witness ==
    /\ engine = "API"
    /\ ret.op = "duplicate"
    /\ ret.val = absent
    /\ activeRequests > 0
    /\ apiCache # <<>>

-----------------------------------------------------------------------------
(* The size of the caches *)

\* the number of entries of the cache of the engine in use
CacheSize ==
    IF engine = "API"
    THEN Len(apiCache)
    ELSE Cardinality({k \in Keys : cache[k] # NoEntry})

\* C22: the number of cache entries never exceeds the configured maximum
\* entry count.
C22_CacheBounded ==
    CacheSize <= MAX_SIZE

\* the entries of the API cache, as a set
ApiEntries(c) == {c[i] : i \in 1..Len(c)}

\* C23: when cacheResult writes a new key into a full cache, exactly one of
\* the entries that were there is removed, none of them had a smaller creation
\* timestamp, every other entry stays as it was, and the entry just written
\* is in the cache.
C23_EvictsOldest ==
    [][(/\ engine = "API"
        /\ ret'.op = "set"
        /\ Len(apiCache) = MAX_SIZE
        /\ ~ApiHas(apiCache, ret'.id))
          => \E old \in ApiEntries(apiCache) :
                /\ \A e \in ApiEntries(apiCache) : old.timestamp <= e.timestamp
                /\ ApiEntries(apiCache') \cap ApiEntries(apiCache)
                       = ApiEntries(apiCache) \ {old}
                /\ Len(apiCache') = MAX_SIZE
                /\ \E new \in ApiEntries(apiCache') :
                      /\ new.key = ret'.id
                      /\ new.data = ret'.val
                      /\ new.timestamp = now]_vars

\* a write has evicted an entry that was written before one that stays
C23_Witness ==
    /\ engine = "API"
    /\ ret.op = "set"
    /\ ret.evicted # {}
    /\ ret.id \notin ret.evicted
    /\ \E e \in ApiEntries(apiCache) : e.key # ret.id /\ e.timestamp < now

-----------------------------------------------------------------------------
(* The effect of a read on the caches *)

\* the entry of key in the cache of the engine in use: whether there is one,
\* its age and its TTL
Has(key) == IF engine = "API" THEN ApiHas(apiCache, key) ELSE cache[key] # NoEntry
Age(key) ==
    IF engine = "API"
    THEN now - apiCache[ApiIndex(apiCache, key)].timestamp
    ELSE now - cache[key].timestamp
Ttl(key) == IF engine = "API" THEN CACHE_TTL ELSE cache[key].ttl

\* C24: a read of a key whose entry is older than its TTL returns absent and
\* removes that entry and no other; a read of a key whose entry is younger
\* than its TTL returns its value and changes nothing.  (At an age of exactly
\* the TTL either of the two happens.)
C24_ReadEffect ==
    [][\A key \in Keys :
          (GetAt(key) /\ Has(key)) =>
              LET expired ==
                      /\ ret'.val = absent
                      /\ IF engine = "API"
                         THEN apiCache' = ApiDelete(apiCache, key)
                         ELSE cache' = [cache EXCEPT ![key] = NoEntry]
                  fresh ==
                      /\ ret'.val = IF engine = "API"
                                    THEN apiCache[ApiIndex(apiCache, key)].data
                                    ELSE cache[key].value
                      /\ UNCHANGED <<cache, apiCache>>
              IN
              /\ UNCHANGED <<cleanupTimers, breakerVars, scrapeVars>>
              /\ Age(key) > Ttl(key) => expired
              /\ Age(key) < Ttl(key) => fresh
              /\ Age(key) = Ttl(key) => expired \/ fresh]_vars

\* a read has found an entry older than its TTL and removed it, and another
\* entry is still there
C24_Witness ==
    \E key \in Keys :
        /\ ret.op = "get"
        /\ ret.id = key
        /\ ret.val = absent
        /\ lastSet[key] # NoSet
        /\ now - lastSet[key].at > lastSet[key].ttl
        /\ ~Has(key)
        /\ \E other \in Keys \ {key} : Has(other)

-----------------------------------------------------------------------------
(* The concurrency limit *)

\* call c is in its fetch phase: it has taken a slot (API: activeRequests++,
\* line 1301; ScrapingEngine: it is inside makeRequest) and its request has
\* not finished
InFetchPhase(c) ==
    IF engine = "API" THEN calls[c].pc \in {"fetch", "backoff"} ELSE calls[c].pc = "request"

ConcurrencyLimit == IF engine = "API" THEN MAX_CONCURRENT ELSE maxConcurrent

\* C25: at no time are more than maxConcurrent scrape requests in their
\* fetch phase.
C25_BoundedConcurrency ==
    Cardinality({c \in CallIds : InFetchPhase(c)}) <= ConcurrencyLimit

\* this step ends the fetch phase of call c
Finishes(c) == InFetchPhase(c) /\ ~InFetchPhase(c)'

\* C26: when a request finishes while requests wait for a slot, the request
\* that has waited longest leaves the queue and starts its fetch, and the
\* others keep their order.
C26_QueueResumedFifo ==
    [][\A c \in CallIds :
          (Finishes(c) /\ requestQueue # <<>>)
              => /\ requestQueue' = Tail(requestQueue)
                 /\ calls[Head(requestQueue)].pc = "queued"
                 /\ calls'[Head(requestQueue)].pc = "fetch"]_vars

\* C27: the active-request counter equals the number of requests that hold
\* a concurrency slot.
C27_CounterMatchesSlots ==
    activeRequests = Cardinality({c \in CallIds : InFetchPhase(c)})

-----------------------------------------------------------------------------
(* The network calls: fetch, its timeout and abortAllRequests *)

\* In this part a frame is one network call of a scrape invocation: pc "fetch"
\* while `await fetch(...)` is pending (the response head has not arrived),
\* pc "body" while `await response.text()` is pending, pc "aborted" when the
\* signal of the fetch has been aborted and the rejection is still to be
\* delivered; `at` is the time the timeout callback is due, NoTime when the
\* timer has fired or has been cleared.

netFrame == <<engine, breakerVars, cacheVars, retryVars, appVars, requests, activeRequests,
              requestQueue, requestFingerprints, fingerprintTimers>>

\* the calls whose network call is under way
Outstanding == {c \in CallIds : calls[c].pc \in {"fetch", "body"}}

\* ScrapingEngine.makeRequest, lines 83-94, with the fetch of scrapeFromSource
\* entering the interceptor, lines 24-27: the controller that makeRequest
\* looks up under scrape's requestId does not exist; the interceptor makes one
\* under an id of its own.  API.fetchWithTimeout, lines 1353-1357: a controller
\* of its own, kept in no registry.
NetStart(c) ==
    /\ c \in FreeCalls(calls) /\ \A k \in FreeCalls(calls) : c <= k
    /\ calls' = [calls EXCEPT ![c] =
                    [FreeFrame EXCEPT !.pc = "fetch", !.t0 = now, !.regAt = now,
                                      !.at = now + (IF engine = "API" THEN FETCH_TIMEOUT
                                                                      ELSE networkTimeout)]]
    /\ abortControllers' = IF engine = "API" THEN abortControllers
                                              ELSE abortControllers \cup {c}
    /\ ret' = NoRead
    /\ UNCHANGED <<now, netFrame>>

\* the fetch resolves with a response.  Interceptor, lines 30-36: the finally
\* block deletes the controller; scrapeFromSource goes on to response.text().
\* fetchWithTimeout, lines 1360-1361: clearTimeout, and scrape goes on to
\* response.text().
NetResponse(c) ==
    /\ calls[c].pc = "fetch"
    /\ calls' = [calls EXCEPT ![c].pc = "body",
                              ![c].at = IF engine = "API" THEN NoTime ELSE @]
    /\ abortControllers' = abortControllers \ {c}
    /\ ret' = NoRead
    /\ UNCHANGED <<now, netFrame>>

\* the body has arrived and the data is extracted; makeRequest, line 111:
\* clearTimeout
NetBody(c, data) ==
    /\ calls[c].pc = "body"
    /\ calls' = [calls EXCEPT ![c] = FreeFrame]
    /\ ret' = [op |-> "fetched", id |-> c, val |-> data]
    /\ UNCHANGED <<now, abortControllers, netFrame>>

\* the fetch or the read of the body fails on its own (network error, HTTP
\* status): the finally block and the catch blocks run, the timer is cleared
\* and the error reaches scrape
NetError(c) ==
    /\ calls[c].pc \in {"fetch", "body"}
    /\ calls' = [calls EXCEPT ![c] = FreeFrame]
    /\ abortControllers' = abortControllers \ {c}
    /\ ret' = [op |-> "failed", id |-> c, val |-> absent]
    /\ UNCHANGED <<now, netFrame>>

\* the timeout callback runs.  makeRequest, lines 84-86: `controller?.abort()`
\* with controller undefined does nothing.  fetchWithTimeout, line 1354:
\* controller.abort() aborts the fetch.
NetTimeout(c) ==
    /\ calls[c].pc \in {"fetch", "body"}
    /\ calls[c].at # NoTime
    /\ calls[c].at <= now
    /\ calls' = [calls EXCEPT ![c].at = NoTime,
                              ![c].pc = IF engine = "API" THEN "aborted" ELSE @]
    /\ ret' = [op |-> "timeout", id |-> c, val |-> absent]
    /\ UNCHANGED <<now, abortControllers, netFrame>>

\* ScrapingEngine.abortAllRequests, lines 362-367: every controller of the
\* registry is aborted and deleted
abortAllRequests ==
    /\ engine = "ScrapingEngine"
    /\ calls' = [c \in CallIds |->
                    IF c \in abortControllers
                    THEN [calls[c] EXCEPT !.pc = "aborted"]
                    ELSE calls[c]]
    /\ abortControllers' = {}
    /\ ret' = [op |-> "abortAll", id |-> "engine", val |-> Outstanding]
    /\ UNCHANGED <<now, netFrame>>

\* the aborted fetch rejects with an AbortError.  makeRequest, lines 133-135:
\* it becomes Error('Request timeout'), which scrape catches; in API the
\* catch of the retry loop, line 1333, takes it as a failed attempt.
NetAbortError(c) ==
    /\ calls[c].pc = "aborted"
    /\ calls' = [calls EXCEPT ![c] = FreeFrame]
    /\ abortControllers' = abortControllers \ {c}
    /\ ret' = [op |-> "failed", id |-> c, val |-> absent]
    /\ UNCHANGED <<now, netFrame>>

\* time passes, unless a timeout callback is due or a rejection is to be delivered
NetTick ==
    /\ now < MaxNetTime
    /\ \A c \in CallIds :
          /\ calls[c].pc # "aborted"
          /\ (calls[c].pc \in {"fetch", "body"} /\ calls[c].at # NoTime) => calls[c].at > now
    /\ now' = now + 1
    /\ ret' = NoRead
    /\ UNCHANGED <<calls, abortControllers, netFrame>>

InitNet ==
    /\ engine \in {"ScrapingEngine", "API"}
    /\ now = 0
    /\ ret = NoRead
    /\ InitBreakers
    /\ InitCaches
    /\ InitRetry
    /\ InitCalls
    /\ InitApp

NextNet ==
    \/ \E c \in CallIds : NetStart(c)
    \/ \E c \in CallIds : NetResponse(c)
    \/ \E c \in CallIds, data \in Values : NetBody(c, data)
    \/ \E c \in CallIds : NetError(c)
    \/ \E c \in CallIds : NetTimeout(c)
    \/ abortAllRequests
    \/ \E c \in CallIds : NetAbortError(c)
    \/ NetTick

SpecNet == InitNet /\ [][NextNet]_vars

\* C28: after abortAllRequests no network call that was outstanding when it
\* was invoked is still under way, and the registry of controllers has no
\* entry for any of them.
C28_AbortAllStopsEverything ==
    [][ret'.op = "abortAll" =>
          \A c \in Outstanding : /\ c \notin Outstanding'
                                 /\ c \notin abortControllers']_vars

\* C29: when the timeout of a network call fires before the call has
\* completed, the call is cancelled: it is no longer under way, and what its
\* scrape invocation gets next is the failure of the attempt.
C29_TimeoutCancelsFetch ==
    [][\A c \in CallIds :
          (ret'.op = "timeout" /\ ret'.id = c /\ c \in Outstanding)
              => /\ c \notin Outstanding'
                 /\ calls'[c].pc = "aborted"]_vars

-----------------------------------------------------------------------------
(* The request slots of API.scrape, under fair scheduling *)

\* In this part a frame is a call of scrape from its arrival at the queue
\* management of line 1296 on; fallbackScrape is left out, a call that has
\* used up its attempts returns the absent result.

queueFrame == <<engine, now, breakerVars, cacheVars, retryVars, appVars, requests,
                requestFingerprints, fingerprintTimers, abortControllers>>

\* scrape, lines 1296-1305: take a slot, or wait for the queue promise
QueueScrape(c) ==
    /\ engine = "API"
    /\ c \in FreeCalls(calls) /\ \A k \in FreeCalls(calls) : c <= k
    /\ IF activeRequests >= MAX_CONCURRENT
       THEN /\ calls' = [calls EXCEPT ![c] = [FreeFrame EXCEPT !.pc = "queued"]]
            /\ requestQueue' = Append(requestQueue, c)
            /\ UNCHANGED activeRequests
       ELSE /\ calls' = [calls EXCEPT ![c] = [FreeFrame EXCEPT !.pc = "fetch"]]
            /\ activeRequests' = activeRequests + 1
            /\ UNCHANGED requestQueue
    /\ ret' = NoRead
    /\ UNCHANGED queueFrame

\* scrape, lines 1312-1331: the fetch answers; the call returns its data
QueueFetchOk(c) ==
    /\ engine = "API"
    /\ calls[c].pc = "fetch"
    /\ calls' = [calls EXCEPT ![c] = FreeFrame]
    /\ ret' = [op |-> "fetched", id |-> c, val |-> "v1"]
    /\ UNCHANGED <<queueFrame, activeRequests, requestQueue>>

\* scrape, lines 1333-1348: the fetch fails or times out; another attempt
\* after the backoff, or the call returns the absent result
QueueFetchFail(c) ==
    /\ engine = "API"
    /\ calls[c].pc = "fetch"
    /\ LET retries == calls[c].retries + 1 IN
       IF retries < RETRY.MAX_ATTEMPTS
       THEN /\ calls' = [calls EXCEPT ![c].pc = "backoff", ![c].retries = retries]
            /\ ret' = NoRead
       ELSE /\ calls' = [calls EXCEPT ![c] = FreeFrame]
            /\ ret' = [op |-> "exhausted", id |-> c, val |-> absent]
    /\ UNCHANGED <<queueFrame, activeRequests, requestQueue>>

\* scrape, line 1339: wait(delay) has resolved; next attempt
QueueBackoffDone(c) ==
    /\ engine = "API"
    /\ calls[c].pc = "backoff"
    /\ calls' = [calls EXCEPT ![c].pc = "fetch"]
    /\ ret' = NoRead
    /\ UNCHANGED <<queueFrame, activeRequests, requestQueue>>

InitQueue ==
    /\ engine = "API"
    /\ now = 0
    /\ ret = NoRead
    /\ InitBreakers
    /\ InitCaches
    /\ InitRetry
    /\ InitCalls
    /\ InitApp

NextQueue ==
    \/ \E c \in CallIds : QueueScrape(c)
    \/ \E c \in CallIds : QueueFetchOk(c)
    \/ \E c \in CallIds : QueueFetchFail(c)
    \/ \E c \in CallIds : QueueBackoffDone(c)

SpecQueue == InitQueue /\ [][NextQueue]_vars

\* every fetch eventually answers, fails or reaches its timeout, and every
\* timer fires; callers are free to call or not
FairQueue ==
    /\ SpecQueue
    /\ \A c \in CallIds : WF_vars(QueueFetchOk(c) \/ QueueFetchFail(c))
    /\ \A c \in CallIds : WF_vars(QueueBackoffDone(c))

\* C38: every scrape call eventually completes, provided every fetch
\* eventually answers, fails or times out.
C38_EveryCallCompletes ==
    \A c \in CallIds : Live(c) ~> ~Live(c)

-----------------------------------------------------------------------------
(* Extraction: API.extractData and MangaverseApp.normalizeMangaList *)

\* An element of a document, as far as the extraction looks at it:
\*   matches   the item selector that finds it: selectors.manga ("primary")
\*             or selectors.fallback.manga ("fallback")
\*   titleBy   the field selector that finds its title element:
\*             selectors.title ("primary"), only selectors.fallback.title
\*             ("fallback"), or none
\*   text      the trimmed text of the title element (for the list of a JSON
\*             response: attributes.title.en, "none" in titleBy when missing)
\*   rating, chapters   the numbers read from it
\*   throws    reading the element raises an exception
Titles == {"", "Unknown Title", "Naruto"}
Scores == {[rating |-> 0, chapters |-> 0], [rating |-> 4, chapters |-> 12]}
BrokenItems ==
    {[matches |-> m, titleBy |-> "none", text |-> "", rating |-> 0, chapters |-> 0,
      throws |-> TRUE] : m \in {"primary", "fallback"}}
ReadableItems ==
    {[matches |-> m, titleBy |-> tb, text |-> IF tb = "none" THEN "" ELSE tx,
      rating |-> sc.rating, chapters |-> sc.chapters, throws |-> FALSE] :
        m \in {"primary", "fallback"}, tb \in {"primary", "fallback", "none"},
        tx \in Titles, sc \in Scores}
Items == BrokenItems \cup ReadableItems
\* the documents: up to MaxItems elements, read with selectors that have a
\* fallback set or not
Docs ==
    [items : UNION {[1..n -> Items] : n \in 0..MaxItems}, fallback : BOOLEAN]

\* JavaScript numbers: an integer (of tenths, where the code has a fraction)
\* or NaN, and arithmetic on them
Num(n) == [nan |-> FALSE, val |-> n]
NaN == [nan |-> TRUE, val |-> 0]
times(x, y) == IF x.nan \/ y.nan THEN NaN ELSE Num(x.val * y.val)
plus(x, y) == IF x.nan \/ y.nan THEN NaN ELSE Num(x.val + y.val)
perMille(x) == IF x.nan THEN NaN ELSE Num(x.val \div 1000)

\* doc.querySelectorAll(selector): the positions of the elements found, in
\* document order
querySelectorAll(d, selector) ==
    LET RECURSIVE from(_)
        from(i) == IF i > Len(d.items) THEN <<>>
                   ELSE IF d.items[i].matches = selector
                        THEN <<i>> \o from(i + 1)
                        ELSE from(i + 1)
    IN from(1)

\* extractText(item, selectors.title), lines 1482-1485
extractText(item) ==
    IF item.titleBy = "primary" THEN item.text ELSE "Unknown Title"

\* validateManga, lines 1523-1525
validateManga(manga) == manga.title # "" /\ manga.title # "Unknown Title"

\* manga[field] as an operand: `undefined`, the value of a field the object
\* does not have, is NaN in arithmetic
Field(manga, field) == IF field \in DOMAIN manga THEN Num(manga[field]) ELSE NaN

\* calculatePopularity, lines 1538-1540, in tenths:
\* rating * 0.6 + chapters * 0.4
calculatePopularity(manga) ==
    plus(times(Field(manga, "rating"), Num(6)), times(Field(manga, "chapters"), Num(4)))

\* Math.exp(-age * 0.1) in thousandths, for an age of whole days
decay(age) == Num(CASE age = 0 -> 1000 [] age = 1 -> 905 [] OTHER -> 819)

\* calculateTrending, lines 1543-1546, in tenths
calculateTrending(manga, t) ==
    LET age == t - manga.lastUpdated IN
    perMille(times(Field(manga, "popularity"), decay(age)))

\* normalizeManga, lines 1528-1535 (normalizedTitle is left out)
normalizeManga(manga, t) ==
    [id |-> manga.id, title |-> manga.title, rating |-> manga.rating,
     chapters |-> manga.chapters, lastUpdated |-> manga.lastUpdated,
     popularity |-> calculatePopularity(manga),
     trending |-> calculateTrending(manga, t)]

\* the body of the forEach callback, lines 1459-1475, for the element at
\* position i: the records it adds to `data`.  generateId() gives each
\* element an id of its own: its position stands for it.
extractItem(d, i, t) ==
    LET item == d.items[i]
        manga == [id |-> i, title |-> extractText(item), rating |-> item.rating,
                  chapters |-> item.chapters, lastUpdated |-> t]
    IN IF item.throws THEN <<>>
       ELSE IF validateManga(manga) THEN <<normalizeManga(manga, t)>> ELSE <<>>

extractData_stopsAtThrow(d, t) ==
    LET primary == querySelectorAll(d, "primary")
        items == IF Len(primary) = 0 /\ d.fallback
                 THEN querySelectorAll(d, "fallback")
                 ELSE primary
        RECURSIVE forEach(_)
        forEach(k) == IF k > Len(items) \/ d.items[items[k]].throws THEN <<>>
                      ELSE extractItem(d, items[k], t) \o forEach(k + 1)
    IN forEach(1)

\* extractData(doc, selectors), lines 1446-1479
extractData(d, t) ==
    LET primary == querySelectorAll(d, "primary")
        items == IF Len(primary) = 0 /\ d.fallback
                 THEN querySelectorAll(d, "fallback")
                 ELSE primary
        RECURSIVE forEach(_)
        forEach(k) == IF k > Len(items) THEN <<>>
                      ELSE extractItem(d, items[k], t) \o forEach(k + 1)
    IN forEach(1)

\* MangaverseApp.normalizeMangaList(data), lines 1082-1096, data.data being
\* the elements of the document
normalizeMangaList(d) ==
    [i \in 1..Len(d.items) |->
        [id |-> i,
         title |-> IF d.items[i].titleBy = "none" \/ d.items[i].text = ""
                   THEN "Unknown Title" ELSE d.items[i].text,
         rating |-> d.items[i].rating,
         chapters |-> d.items[i].chapters]]

(* Extraction specification: the response to a request has some document,  *)
(* and the engine reads it.                                                 *)

\* API.scrape, lines 1321-1331: the body of the response has arrived
ApiExtract(s) ==
    /\ engine = "API"
    /\ extraction.by = "none"
    /\ extraction' = [by |-> "extractData", source |-> s,
                      data |-> extractData(doc, now)]
    /\ LET r == updateSourceHealth(sourceHealth, circuitBreakers, s, TRUE, now) IN
       /\ sourceHealth' = r.health
       /\ circuitBreakers' = r.breakers
    /\ streak' = [streak EXCEPT ![s] = 0]
    /\ ret' = [op |-> "recordSuccess", id |-> s, val |-> TRUE, was |-> StateOf(s)]
    /\ UNCHANGED <<engine, now, circuitBreaker, inFlight, openedAt, trialPending,
                   cacheVars, retryVars, scrapeVars, doc, manager>>

\* MangaverseApp.loadMangaList, lines 776-784: the list of the response is
\* normalized
AppNormalize ==
    /\ engine = "ScrapingEngine"
    /\ extraction.by = "none"
    /\ extraction' = [by |-> "normalizeMangaList", source |-> "none",
                      data |-> normalizeMangaList(doc)]
    /\ ret' = NoRet
    /\ UNCHANGED <<engine, now, breakerVars, cacheVars, retryVars, scrapeVars, doc, manager>>

\* API.scrape, line 1345: an earlier request to the source has failed for good
ExtractEarlierFailure(s) ==
    /\ engine = "API"
    /\ extraction.by = "none"
    /\ sourceHealth[s].failures < THRESHOLD - 1
    /\ LET r == updateSourceHealth(sourceHealth, circuitBreakers, s, FALSE, now) IN
       /\ sourceHealth' = r.health
       /\ circuitBreakers' = r.breakers
    /\ streak' = [streak EXCEPT ![s] = @ + 1]
    /\ ret' = [op |-> "recordFailure", id |-> s, val |-> FALSE, was |-> StateOf(s)]
    /\ UNCHANGED <<engine, now, circuitBreaker, inFlight, openedAt, trialPending,
                   cacheVars, retryVars, scrapeVars, appVars>>

InitExtract ==
    /\ engine \in {"ScrapingEngine", "API"}
    /\ now = 0
    /\ ret = NoRet
    /\ InitBreakers
    /\ InitCaches
    /\ InitRetry
    /\ InitCalls
    /\ doc \in Docs
    /\ engine = "ScrapingEngine" => ~doc.fallback
    /\ extraction = NoExtraction
    /\ manager = NewManager

NextExtract ==
    \/ \E s \in {Sources[1]} : ApiExtract(s)
    \/ AppNormalize
    \/ \E s \in {Sources[1]} : ExtractEarlierFailure(s)

SpecExtract == InitExtract /\ [][NextExtract]_vars

\* the positions of the records of a list
Ids(data) == {data[k].id : k \in 1..Len(data)}

\* C31: when the document of a response yields no valid record at all, the
\* scrape call reports a failure, not a success, for that source.
C31_EmptyDocumentIsFailure ==
    [][\A s \in SourceIds :
          (/\ extraction.by = "none"
           /\ extraction'.by = "extractData"
           /\ extraction'.source = s
           /\ extraction'.data = <<>>)
              => (ret'.op = "recordFailure" /\ ret'.id = s)]_vars

\* C32: every record of a returned list has a title that is present and is
\* not the sentinel 'Unknown Title'.
C32_TitlesValid ==
    \A k \in 1..Len(extraction.data) :
        extraction.data[k].title \notin {"", "Unknown Title"}

\* the elements that the fallback pattern set reads as well-formed items:
\* found by the fallback item pattern, with a title found by the fallback
\* title pattern
WellFormedByFallback(d) ==
    {i \in 1..Len(d.items) :
        /\ d.items[i].matches = "fallback"
        /\ ~d.items[i].throws
        /\ d.items[i].titleBy = "fallback"
        /\ d.items[i].text \notin {"", "Unknown Title"}}

\* C33: when the primary item pattern matches no element and the fallback
\* pattern set matches N well-formed items, extraction returns a record for
\* each of the N, all with a valid title.
C33_FallbackPatternSet ==
    (/\ extraction.by = "extractData"
     /\ doc.fallback
     /\ querySelectorAll(doc, "primary") = <<>>)
        => /\ WellFormedByFallback(doc) \subseteq Ids(extraction.data)
           /\ \A k \in 1..Len(extraction.data) :
                 extraction.data[k].title \notin {"", "Unknown Title"}

\* the elements the extraction goes through, and those of them that make a
\* valid record
Selected(d) ==
    LET pattern == IF d.fallback /\ \A i \in 1..Len(d.items) : d.items[i].matches # "primary"
                   THEN "fallback" ELSE "primary"
    IN {i \in 1..Len(d.items) : d.items[i].matches = pattern}
Valid(d) ==
    {i \in Selected(d) :
        /\ ~d.items[i].throws
        /\ d.items[i].titleBy = "primary"
        /\ d.items[i].text \notin {"", "Unknown Title"}}

\* C34: when reading one element of a batch throws, that element alone is
\* skipped: the list returned has, in document order, exactly the valid
\* records of all the other elements.
C34_ThrowingItemSkipped ==
    (/\ extraction.by = "extractData"
     /\ \E i \in Selected(doc) : doc.items[i].throws)
        => /\ Ids(extraction.data) = Valid(doc)
           /\ \A k, l \in 1..Len(extraction.data) :
                 k < l => extraction.data[k].id < extraction.data[l].id
           /\ \A k \in 1..Len(extraction.data) :
                 LET r == extraction.data[k] IN
                 /\ r.title = doc.items[r.id].text
                 /\ r.rating = doc.items[r.id].rating
                 /\ r.chapters = doc.items[r.id].chapters

\* a throwing element stands between two valid ones, and both are returned
C34_Witness ==
    /\ extraction.by = "extractData"
    /\ Len(extraction.data) = 2
    /\ \E i \in Selected(doc) :
          /\ doc.items[i].throws
          /\ extraction.data[1].id < i
          /\ i < extraction.data[2].id

\* C35: every normalized record has popularity = rating * 0.6 + chapters * 0.4
\* and trending = popularity * e^(-ageInDays * 0.1), computed from that
\* popularity: a number (here in tenths, the age being 0 at extraction).
C35_TrendingFromPopularity ==
    extraction.by = "extractData" =>
        \A k \in 1..Len(extraction.data) :
            LET r == extraction.data[k] IN
            /\ r.popularity = Num(r.rating * 6 + r.chapters * 4)
            /\ ~r.trending.nan
            /\ r.trending = perMille(times(r.popularity, decay(0)))

-----------------------------------------------------------------------------
(* class StateManager: set, undo and redo.  The observers and the storage   *)
(* that set also writes to are left out.                                    *)

\* get(path), lines 90-100
get(m, path) == m.state[path]

\* addToHistory(path, value, oldValue), lines 131-140; historyIndex counts
\* from 0 as in the code, history[historyIndex + 1] is its entry here
addToHistory(m, path, value, oldValue) ==
    LET kept == SubSeq(m.history, 1, m.historyIndex + 1)
        pushed == Append(kept, [path |-> path, value |-> value, oldValue |-> oldValue])
        index == m.historyIndex + 1
    IN IF Len(pushed) > HISTORY_LIMIT
       THEN [m EXCEPT !.history = Tail(pushed), !.historyIndex = index - 1]
       ELSE [m EXCEPT !.history = pushed, !.historyIndex = index]

\* set(path, value), lines 73-88
set(m, path, value) ==
    LET oldValue == m.state[path] IN
    addToHistory([m EXCEPT !.state[path] = value], path, value, oldValue)

\* undo(), lines 142-148
undo(m) ==
    IF m.historyIndex >= 0
    THEN LET entry == m.history[m.historyIndex + 1]
             m1 == set(m, entry.path, entry.oldValue)
         IN [m1 EXCEPT !.historyIndex = @ - 1]
    ELSE m

\* redo(), lines 150-156
redo(m) ==
    IF m.historyIndex < Len(m.history) - 1
    THEN LET m1 == [m EXCEPT !.historyIndex = @ + 1]
             entry == m1.history[m1.historyIndex + 1]
         IN set(m1, entry.path, entry.value)
    ELSE m

stateFrame == <<engine, now, breakerVars, cacheVars, retryVars, scrapeVars, doc, extraction>>

\* state.set(path, value) by the application
StateSet(path, value) ==
    /\ manager' = set(manager, path, value)
    /\ ret' = [op |-> "set", id |-> path, val |-> value, was |-> get(manager, path)]
    /\ UNCHANGED stateFrame

\* state.undo(); `ret` keeps the entry it went back over, if there was one
StateUndo ==
    /\ manager' = undo(manager)
    /\ ret' = IF manager.historyIndex >= 0
              THEN LET entry == manager.history[manager.historyIndex + 1] IN
                   [op |-> "undo", id |-> entry.path, val |-> entry.oldValue,
                    was |-> entry.value]
              ELSE [op |-> "undo", id |-> "none", val |-> absent, was |-> absent]
    /\ UNCHANGED stateFrame

\* state.redo()
StateRedo ==
    /\ manager' = redo(manager)
    /\ ret' = [op |-> "redo", id |-> "none", val |-> absent, was |-> absent]
    /\ UNCHANGED stateFrame

InitState ==
    /\ engine = "ScrapingEngine"
    /\ now = 0
    /\ ret = NoRet
    /\ InitBreakers
    /\ InitCaches
    /\ InitRetry
    /\ InitCalls
    /\ InitApp

NextState ==
    \/ \E path \in Paths, value \in StateValues : StateSet(path, value)
    \/ StateUndo
    \/ StateRedo

SpecState == InitState /\ [][NextState]_vars

\* C40: after set(path, v) has replaced u, undo() makes get(path) return u
\* and a redo() that follows makes it return v again; historyIndex moves
\* back by one per undo and forward by one per redo.
C40_UndoRedo ==
    [][/\ (ret.op = "set" /\ ret'.op = "undo")
            => /\ get(manager', ret.id) = ret.was
               /\ manager'.historyIndex = manager.historyIndex - 1
       /\ (ret.op = "undo" /\ ret.id \in Paths /\ ret'.op = "redo")
            => /\ get(manager', ret.id) = ret.was
               /\ manager'.historyIndex = manager.historyIndex + 1]_vars

-----------------------------------------------------------------------------
(* Extraction failures *)

\* C30: a call of API.scrape in which an extraction has failed makes no
\* further fetch attempt against its source: it is not in a fetch and not in
\* the wait before one.
C30_ExtractionNotRetried ==
    \A c \in CallIds :
        calls[c].how = "extraction" => calls[c].pc \notin {"fetch", "backoff"}

====
